---- MODULE Spec2Model ----
(***************************************************************************)
(* Model of scripts/transform_plugin_data/run.py: the plugin catalog       *)
(* refresh job (fetch catalog, load cache, enrich per repository with      *)
(* retry/backoff, merge, publish).                                         *)
(*                                                                         *)
(* Python values are modelled as follows.                                  *)
(*   - a dict is a TLA+ function from key strings to values;               *)
(*   - an insertion-ordered dict whose order matters (the catalog, the     *)
(*     cache mapping, the final catalog) is a sequence of                  *)
(*     [key |-> k, value |-> v] items with distinct keys;                  *)
(*   - a JSON value whose type the code tests with isinstance is a         *)
(*     tagged record [type |-> "dict" | "str", val |-> the dict];          *)
(*   - a repository URL is the token record of its text                    *)
(*     scheme://host/seg/.../seg[.git][/], so that REPO_URL_RE is a test   *)
(*     on the text and not a flag.                                         *)
(***************************************************************************)
EXTENDS Integers, Sequences, FiniteSets, TLC

VARIABLES
    pc,                 \* position of main() (or of the harness of a sub-specification)
    should_update,      \* main: should_update
    has_changes,        \* main: has_changes
    exit_code,          \* value returned by main(), -1 while running
    original_plugins,   \* the catalog returned by fetch_original_plugin_data
    existing_cache,     \* the raw cache returned by load_existing_cache
    has_existing_cache, \* main: has_existing_cache
    repo_info,          \* url -> RepoInfo, filled by get_repo_info
    tasks,              \* url -> state of the process_repo call submitted for it
    result,             \* the final catalog returned by transform_plugin_data
    files,              \* file name -> content, the files of the working directory
    hist,               \* history: what the run has performed so far
    BASE_DELAY,         \* module configuration, line 23
    MAX_DELAY,          \* module configuration, line 24
    MAX_WORKERS         \* module configuration, line 25

vars == <<pc, should_update, has_changes, exit_code, original_plugins,
          existing_cache, has_existing_cache, repo_info, tasks, result,
          files, hist, BASE_DELAY, MAX_DELAY, MAX_WORKERS>>

(***************************************************************************)
(* Python dict primitives                                                  *)
(***************************************************************************)
EmptyDict == [k \in {} |-> ""]

\* the value None
PyNone == "<None>"

\* d.get(k, default)
DictGet(d, k, default) == IF k \in DOMAIN d THEN d[k] ELSE default

\* d[k] = v
DictPut(d, k, v) == [x \in (DOMAIN d) \cup {k} |-> IF x = k THEN v ELSE d[x]]

\* d.pop(k, None)
DictPop(d, k) == [x \in (DOMAIN d) \ {k} |-> d[x]]

\* isinstance(x, dict) on a tagged JSON value
IsDict(x) == x.type = "dict"

JDict(d) == [type |-> "dict", val |-> d]
JStr == [type |-> "str", val |-> EmptyDict]

\* ordered-mapping lookup: the set of positions holding key k (0 or 1 element)
PosOf(items, k) == {i \in 1..Len(items) : items[i].key = k}

HasKey(items, k) == PosOf(items, k) # {}

\* items[k] for a key that is present
ItemAt(items, k) == items[CHOOSE i \in PosOf(items, k) : TRUE].value

KeysOf(items) == [i \in 1..Len(items) |-> items[i].key]

(***************************************************************************)
(* Repository URLs and REPO_URL_RE (line 19)                               *)
(***************************************************************************)
Url(scheme, host, path, git, slash) ==
    [scheme |-> scheme, host |-> host, path |-> path, git |-> git, slash |-> slash]

\* the empty string, the default of plugin.get("repo", "")
EmptyUrl == Url("", "", <<>>, FALSE, FALSE)

UrlFoo     == Url("https", "github.com", <<"acme", "foo">>, FALSE, FALSE)
UrlBarGit  == Url("https", "github.com", <<"acme", "bar">>, TRUE, TRUE)
UrlHttp    == Url("http", "github.com", <<"acme", "foo">>, FALSE, FALSE)
UrlOther   == Url("https", "gitlab.com", <<"acme", "foo">>, FALSE, FALSE)
UrlDeep    == Url("https", "github.com", <<"acme", "foo", "tree">>, FALSE, FALSE)
UrlOwner   == Url("https", "github.com", <<"acme">>, FALSE, FALSE)

\* REPO_URL_RE.match(repo_url): ^https://github\.com/([^/]+)/([^/]+?)(?:\.git)?/?$
REPO_URL_RE_match(u) ==
    /\ u.scheme = "https"
    /\ u.host = "github.com"
    /\ Len(u.path) = 2
    /\ u.path[1] # ""
    /\ u.path[2] # ""

\* isinstance(repo_url, str) and repo_url   (lines 154, 292)
NonEmptyUrl(u) == u # EmptyUrl

(***************************************************************************)
(* Cache shapes: normalize_cache and build_cache_by_repo                   *)
(***************************************************************************)
\* A raw cache is [shape |-> "plain" | "wrapped" | "notdict" | "invalid", items |->
\* mapping]: "wrapped" is the legacy {"data": {...}} object, "notdict" a JSON value
\* that is no object (its items are empty), "invalid" a file json.load rejects.
RawCache(shape, items) == [shape |-> shape, items |-> items]

EmptyCache == RawCache("plain", <<>>)

\* normalize_cache(cache_raw), lines 140-145
normalize_cache(cache_raw) ==
    IF cache_raw.shape = "notdict" THEN <<>>
    ELSE cache_raw.items

\* one iteration of the loop of build_cache_by_repo, lines 150-161
build_cache_by_repo_item(acc, value) ==
    IF ~IsDict(value) THEN acc
    ELSE LET repo_url == DictGet(value.val, "repo", EmptyUrl) IN
         IF ~NonEmptyUrl(repo_url) THEN acc
         ELSE [u \in (DOMAIN acc) \cup {repo_url} |->
                 IF u = repo_url
                 THEN [stars      |-> DictGet(value.val, "stars", 0),
                       updated_at |-> DictGet(value.val, "updated_at", ""),
                       version    |-> DictGet(value.val, "version", ""),
                       logo       |-> DictGet(value.val, "logo", "")]
                 ELSE acc[u]]

RECURSIVE build_cache_by_repo_loop(_, _, _)
build_cache_by_repo_loop(acc, items, i) ==
    IF i > Len(items) THEN acc
    ELSE build_cache_by_repo_loop(build_cache_by_repo_item(acc, items[i].value), items, i + 1)

\* build_cache_by_repo(cache_data), lines 148-162: later entries overwrite earlier ones
build_cache_by_repo(cache_data) == build_cache_by_repo_loop(EmptyDict, cache_data, 1)

(***************************************************************************)
(* Merge Engine: transform_plugin_data, lines 331-443                      *)
(***************************************************************************)
RepoInfo(stars, updated_at, version, logo, status) ==
    [stars |-> stars, updated_at |-> updated_at, version |-> version,
     logo |-> logo, status |-> status]

mutant_repo_info_pop(ri, repo_url) ==
    [found |-> repo_url \in DOMAIN ri,
     after |-> [u \in (DOMAIN ri) \ {repo_url} |-> ri[u]]]

\* repo_info.get(repo_url), line 344: whether an entry exists, and the mapping
\* object as the lookup leaves it (a read: unchanged)
repo_info_get(ri, repo_url) ==
    [found |-> repo_url \in DOMAIN ri, after |-> ri]

\* cache.get(key, {}) if isinstance(cache.get(key, {}), dict) else {}, line 345
cache_entry_of(cache, key) ==
    IF HasKey(cache, key) /\ IsDict(ItemAt(cache, key))
    THEN ItemAt(cache, key).val
    ELSE EmptyDict

mutant_should_drop_deleted_only(found, repo_status, cache_entry) ==
    found /\ repo_status = "deleted"

\* the drop condition, lines 348-350
should_drop(found, repo_status, cache_entry) ==
    found /\ (repo_status = "deleted"
              \/ (repo_status # "success" /\ DOMAIN cache_entry = {}))

mutant_final_stars_any_status(found, repo_status, repo_stars, cache_stars) ==
    IF found THEN repo_stars ELSE cache_stars

\* final_stars, line 367 (repo_stars is None exactly when there is no entry)
final_stars_of(found, repo_status, repo_stars, cache_stars) ==
    IF repo_status = "success" /\ found THEN repo_stars ELSE cache_stars

mutant_first_non_empty_cache_first(repo_value, cache_value, default) ==
    IF cache_value # "" THEN cache_value
    ELSE IF repo_value # "" THEN repo_value
    ELSE default

\* repo_x or cache_x or default, lines 366, 368, 369
first_non_empty(repo_value, cache_value, default) ==
    IF repo_value # "" THEN repo_value
    ELSE IF cache_value # "" THEN cache_value
    ELSE default

mutant_put_or_keep(d, k, v) == IF v # "" THEN DictPut(d, k, v) ELSE d

\* lines 380-387: set the key when the value is non-empty, else pop it
put_or_pop(d, k, v) == IF v # "" THEN DictPut(d, k, v) ELSE DictPop(d, k)

\* new_plugin = plugin: the entry itself instead of a copy of it
mutant_dict_copy_alias(plugin) == [obj |-> plugin, shared |-> TRUE]

\* dict(plugin), line 371: a new object with the entry's items; shared tells
\* whether a write to obj is a write to the entry it was made from
dict_copy(plugin) == [obj |-> plugin, shared |-> FALSE]

\* lines 371-387: the new entry built from a copy of the plugin
new_plugin_of(plugin, stars, version, updated, logo) ==
    LET p0 == plugin
        p1 == DictPut(p0, "desc", DictGet(plugin, "desc", PyNone))
        p2 == DictPut(p1, "author", DictGet(plugin, "author", PyNone))
        p3 == DictPut(p2, "repo", DictGet(plugin, "repo", PyNone))
        p4 == DictPut(p3, "tags", DictGet(plugin, "tags", <<>>))
        p5 == DictPut(p4, "stars", stars)
        p6 == DictPut(p5, "version", version)
        p7 == IF "social_link" \in DOMAIN plugin
              THEN DictPut(p6, "social_link", plugin["social_link"]) ELSE p6
        p8 == put_or_pop(p7, "updated_at", updated)
    IN  put_or_pop(p8, "logo", logo)

\* one iteration of the loop that puts the new entry in front of the result
mutant_transform_item_prepends(acc, key, plugin, cache) ==
    IF ~IsDict(plugin) THEN acc
    ELSE
    LET repo_url     == DictGet(plugin.val, "repo", EmptyUrl)
        got          == repo_info_get(acc.repo_info, repo_url)
        found        == got.found
        repo_entry   == IF found THEN acc.repo_info[repo_url]
                        ELSE RepoInfo(0, "", "", "", "")
        cache_entry  == cache_entry_of(cache, key)
        repo_status  == repo_entry.status
        acc1         == [acc EXCEPT !.repo_info = got.after]
    IN
    IF should_drop(found, repo_status, cache_entry)
    THEN IF repo_status = "deleted"
         THEN [acc1 EXCEPT !.removed_deleted = Append(@, key)]
         ELSE [acc1 EXCEPT !.failed_or_other = Append(@, <<key, repo_status>>)]
    ELSE
    LET final_version == first_non_empty(repo_entry.version,
                                         DictGet(cache_entry, "version", ""), "1.0.0")
        final_stars   == final_stars_of(found, repo_status, repo_entry.stars,
                                        DictGet(cache_entry, "stars", 0))
        final_updated == first_non_empty(repo_entry.updated_at,
                                         DictGet(cache_entry, "updated_at", ""), "")
        final_logo    == first_non_empty(repo_entry.logo,
                                         DictGet(cache_entry, "logo", ""), "")
        copy          == dict_copy(plugin.val)
        new_plugin    == new_plugin_of(copy.obj, final_stars, final_version,
                                       final_updated, final_logo)
        plugin_after  == IF copy.shared THEN new_plugin ELSE plugin.val
        acc2          == [acc1 EXCEPT
                            !.result = <<[key |-> key, value |-> new_plugin]>> \o @,
                            !.plugins = [i \in 1..Len(@) |->
                                           IF @[i].key = key
                                           THEN [key |-> key, value |-> JDict(plugin_after)]
                                           ELSE @[i]]]
    IN
    IF repo_status = "redirected"
    THEN [acc2 EXCEPT !.redirected = Append(@, key)]
    ELSE IF repo_status # "" /\ repo_status \notin {"success", "cached", "deleted"}
    THEN [acc2 EXCEPT !.failed_or_other = Append(@, <<key, repo_status>>)]
    ELSE acc2

\* one iteration of the loop of transform_plugin_data, lines 340-394.
\* acc holds the function's locals (result and the three report lists) and
\* the repo_info mapping and the catalog as the iterations so far left them.
transform_item(acc, key, plugin, cache) ==
    IF ~IsDict(plugin) THEN acc
    ELSE
    LET repo_url     == DictGet(plugin.val, "repo", EmptyUrl)
        got          == repo_info_get(acc.repo_info, repo_url)
        found        == got.found
        repo_entry   == IF found THEN acc.repo_info[repo_url]
                        ELSE RepoInfo(0, "", "", "", "")
        cache_entry  == cache_entry_of(cache, key)
        repo_status  == repo_entry.status
        acc1         == [acc EXCEPT !.repo_info = got.after]
    IN
    IF should_drop(found, repo_status, cache_entry)
    THEN IF repo_status = "deleted"
         THEN [acc1 EXCEPT !.removed_deleted = Append(@, key)]
         ELSE [acc1 EXCEPT !.failed_or_other = Append(@, <<key, repo_status>>)]
    ELSE
    LET final_version == first_non_empty(repo_entry.version,
                                         DictGet(cache_entry, "version", ""), "1.0.0")
        final_stars   == final_stars_of(found, repo_status, repo_entry.stars,
                                        DictGet(cache_entry, "stars", 0))
        final_updated == first_non_empty(repo_entry.updated_at,
                                         DictGet(cache_entry, "updated_at", ""), "")
        final_logo    == first_non_empty(repo_entry.logo,
                                         DictGet(cache_entry, "logo", ""), "")
        copy          == dict_copy(plugin.val)
        new_plugin    == new_plugin_of(copy.obj, final_stars, final_version,
                                       final_updated, final_logo)
        plugin_after  == IF copy.shared THEN new_plugin ELSE plugin.val
        acc2          == [acc1 EXCEPT
                            !.result = Append(@, [key |-> key, value |-> new_plugin]),
                            !.plugins = [i \in 1..Len(@) |->
                                           IF @[i].key = key
                                           THEN [key |-> key, value |-> JDict(plugin_after)]
                                           ELSE @[i]]]
    IN
    IF repo_status = "redirected"
    THEN [acc2 EXCEPT !.redirected = Append(@, key)]
    ELSE IF repo_status # "" /\ repo_status \notin {"success", "cached", "deleted"}
    THEN [acc2 EXCEPT !.failed_or_other = Append(@, <<key, repo_status>>)]
    ELSE acc2

RECURSIVE transform_loop(_, _, _, _)
transform_loop(acc, items, cache, i) ==
    IF i > Len(items) THEN acc
    ELSE transform_loop(transform_item(acc, items[i].key, items[i].value, cache),
                        items, cache, i + 1)

\* transform_plugin_data(original_plugins, repo_info, existing_cache_raw),
\* lines 331-443: the returned catalog, the report lists, and repo_info and the
\* catalog argument after the call
transform_plugin_data(plugins, ri, existing_cache_raw) ==
    transform_loop([result |-> <<>>, removed_deleted |-> <<>>,
                    failed_or_other |-> <<>>, redirected |-> <<>>,
                    repo_info |-> ri, plugins |-> plugins],
                   plugins, normalize_cache(existing_cache_raw), 1)

(***************************************************************************)
(* Files of the working directory                                          *)
(***************************************************************************)
ARTIFACT == "plugin_cache_original.json"

\* json.dump of a final catalog: every entry is written as a JSON object
ToJson(items) ==
    RawCache("plain", [i \in 1..Len(items) |->
                          [key |-> items[i].key, value |-> JDict(items[i].value)]])

\* save_json(path, data), lines 43-49
save_json(fs, path, data) == DictPut(fs, path, data)

\* os.path.exists(path)
path_exists(fs, path) == path \in DOMAIN fs

(***************************************************************************)
(* The merge step of a run: main line 575 calling transform_plugin_data    *)
(***************************************************************************)
\* lines 331-397 as a state change: the returned catalog, the two files written
\* (lines 396-397), and the arguments as the call leaves them
MergeEffect ==
    LET out == transform_plugin_data(original_plugins, repo_info, existing_cache) IN
    /\ result' = out.result
    /\ repo_info' = out.repo_info
    /\ files' = save_json(save_json(files, "temp_plugin_cache_original.json",
                                    ToJson(out.result)),
                          ARTIFACT, ToJson(out.result))
    /\ hist' = [hist EXCEPT
                  !.merges = @ + 1,
                  !.first_result = IF hist.merges = 0 THEN out.result ELSE @,
                  !.report = [removed_deleted |-> out.removed_deleted,
                              failed_or_other |-> out.failed_or_other,
                              redirected      |-> out.redirected],
                  !.performed = @ \cup {"merge"},
                  !.order = Append(@, "merge")]
    /\ original_plugins' = out.plugins
    /\ UNCHANGED existing_cache

\* main, line 575
Merge ==
    /\ pc = "merge"
    /\ MergeEffect
    /\ pc' = "pull"
    /\ UNCHANGED <<should_update, has_changes, exit_code, has_existing_cache,
                   tasks, BASE_DELAY, MAX_DELAY, MAX_WORKERS>>

\* a second call of transform_plugin_data with the same three arguments
MergeAgain ==
    /\ pc = "pull"
    /\ hist.merges = 1
    /\ MergeEffect
    /\ pc' = "merged_again"
    /\ UNCHANGED <<should_update, has_changes, exit_code, has_existing_cache,
                   tasks, BASE_DELAY, MAX_DELAY, MAX_WORKERS>>

NoReport == [removed_deleted |-> <<>>, failed_or_other |-> <<>>, redirected |-> <<>>]

\* the answer of the catalog source before any was received
NoResponse ==
    [transport_ok |-> FALSE, status |-> 0, blank |-> TRUE, bytes |-> 0,
     json |-> "none", catalog |-> <<>>]

\* nothing performed yet: merges counts the calls of transform_plugin_data and
\* first_result keeps what the first returned; report holds the lists the merge
\* prints; performed names the phases that ran; worker_count is the pool size of
\* line 309; response is the catalog source's answer; artifact0 the artifact file
\* as the run found it; summary the outcome print_summary reported; order lists the
\* phases in the order they began; error names what raised the exception main
\* caught ("none" when nothing was raised); submitted is repo_urls, the URLs whose
\* calls were submitted, and collected the URLs in the order as_completed handed
\* their results over
HistInit ==
    [merges |-> 0, first_result |-> <<>>, report |-> NoReport, performed |-> {},
     worker_count |-> 0, response |-> NoResponse, artifact0 |-> <<>>,
     summary |-> "none", order |-> <<>>, error |-> "none",
     submitted |-> <<>>, collected |-> <<>>]

\* the history of a run that is inside get_repo_info with one task submitted
HistEnrich == [HistInit EXCEPT !.worker_count = 1, !.performed = {"fetch"}]

(***************************************************************************)
(* Inputs of the merge                                                     *)
(***************************************************************************)
\* catalog descriptors, as the remote catalog may carry them
PlainPlugin(u) == [repo |-> u, desc |-> "d", author |-> "a", tags |-> <<"t">>]

\* a descriptor that already carries the fields the merge writes
StalePlugin(u) == [repo |-> u, desc |-> "d", author |-> "a", tags |-> <<"t">>,
                   social_link |-> "s", stars |-> 7, version |-> "0.1",
                   updated_at |-> "stale", logo |-> "stale.png"]

\* a descriptor with no repo, author or tags
BarePlugin == [desc |-> "d"]

ZeroStatuses == {"redirected", "deleted", "api_limit", "network_error", "invalid_repo_url"}

\* the RepoInfo records process_repo can return (lines 233-239, 275-281):
\* zero fields for a failed status, any fields for success, a non-trivial
\* by-repository record for cached
RepoInfoValues ==
    {RepoInfo(0, "", "", "", st) : st \in ZeroStatuses}
    \cup {RepoInfo(s, u, v, l, "success") :
            s \in {0, 42}, u \in {"", "2024-01-01T00:00:00Z"},
            v \in {"", "2.0.0"}, l \in {"", "raw/foo/main/logo.png"}}
    \cup {r \in {RepoInfo(s, u, v, l, "cached") :
                   s \in {0, 10}, u \in {"", "2023-05-05T00:00:00Z"},
                   v \in {"", "1.2.0"}, l \in {"", "raw/foo/old/logo.png"}} :
            r.stars # 0 \/ r.updated_at # ""}

\* repo_info maps for the one repository the catalogs below reference
RepoInfoMaps ==
    {EmptyDict} \cup {[u \in {UrlFoo} |-> r] : r \in RepoInfoValues}

\* a dict restricted to the keys in ks
Restrict(d, ks) == [k \in ks |-> d[k]]

FullCacheFields ==
    [repo |-> UrlFoo, stars |-> 10, version |-> "1.2.0",
     updated_at |-> "2023-05-05T00:00:00Z", logo |-> "raw/foo/old/logo.png"]

\* cache entries of a key: objects holding any subset of the four fields the
\* merge reads (with stars 0 or 10), the empty object, and a value that is no object
CacheValues ==
    {JDict(Restrict(f, ks \cup {"repo"})) :
        f \in {FullCacheFields, [FullCacheFields EXCEPT !.stars = 0]},
        ks \in SUBSET {"stars", "version", "updated_at", "logo"}}
    \cup {JDict(EmptyDict), JStr}

\* the ordered cache mapping with the given optional entries of p1 and p2
CacheItems(e1, e2) ==
    (IF e1 = <<>> THEN <<>> ELSE <<[key |-> "p1", value |-> e1[1]]>>)
    \o (IF e2 = <<>> THEN <<>> ELSE <<[key |-> "p2", value |-> e2[1]]>>)

MergeCaches ==
    {RawCache(sh, CacheItems(e1, e2)) :
        sh \in {"plain", "wrapped"},
        e1 \in {<<>>} \cup {<<c>> : c \in CacheValues},
        e2 \in {<<>>, <<JDict(FullCacheFields)>>}}
    \cup {RawCache("notdict", <<>>)}

P1Values == {JStr, JDict(PlainPlugin(UrlFoo)), JDict(StalePlugin(UrlFoo)), JDict(BarePlugin)}
P2Values == {JStr, JDict(PlainPlugin(UrlFoo))}

MergeCatalogs ==
    {<<[key |-> "p1", value |-> a]>> : a \in P1Values}
    \cup {<<[key |-> "p2", value |-> b]>> : b \in P2Values}
    \cup {<<[key |-> "p1", value |-> a], [key |-> "p2", value |-> b]>> :
            a \in P1Values, b \in P2Values}
    \cup {<<[key |-> "p2", value |-> b], [key |-> "p1", value |-> a]>> :
            a \in P1Values, b \in P2Values}

\* the state in which main reaches line 575, for every merge input above
InitMerge ==
    /\ pc = "merge"
    /\ should_update = TRUE
    /\ has_changes = FALSE
    /\ exit_code = -1
    /\ original_plugins \in MergeCatalogs
    /\ existing_cache \in MergeCaches
    /\ has_existing_cache \in BOOLEAN
    /\ has_existing_cache = (existing_cache # EmptyCache)
    /\ repo_info \in RepoInfoMaps
    /\ tasks = EmptyDict
    /\ result = <<>>
    /\ files = EmptyDict
    /\ hist = HistInit
    /\ BASE_DELAY = 2
    /\ MAX_DELAY = 30
    /\ MAX_WORKERS = 12

NextMerge == Merge \/ MergeAgain

SpecMerge == InitMerge /\ [][NextMerge]_vars

(***************************************************************************)
(* Properties of the merge (checked under SpecMerge)                       *)
(***************************************************************************)
Merged == hist.merges >= 1

CatalogKeys == {original_plugins[i].key : i \in 1..Len(original_plugins)}

ResultKeys == {result[i].key : i \in 1..Len(result)}

PluginOf(k) == ItemAt(original_plugins, k)

FinalOf(k) == ItemAt(result, k)

\* the repository URL a catalog entry names ("" when it names none)
UrlOfKey(k) ==
    IF IsDict(PluginOf(k)) /\ "repo" \in DOMAIN PluginOf(k).val
    THEN PluginOf(k).val.repo ELSE EmptyUrl

\* a RepoInfo exists for the entry's repository URL
HasRepoInfo(k) == UrlOfKey(k) \in DOMAIN repo_info

StatusOfKey(k) == repo_info[UrlOfKey(k)].status

\* the cache mapping has an entry under the plugin key
CacheHasKey(k) == HasKey(normalize_cache(existing_cache), k)

\* the cache mapping has a non-empty object under the plugin key
CacheHasObject(k) ==
    /\ CacheHasKey(k)
    /\ ItemAt(normalize_cache(existing_cache), k).type = "dict"
    /\ DOMAIN ItemAt(normalize_cache(existing_cache), k).val # {}

\* the cached value of a field of the plugin key, or the default when there is none
CacheField(k, f, default) ==
    IF CacheHasObject(k) /\ f \in DOMAIN ItemAt(normalize_cache(existing_cache), k).val
    THEN ItemAt(normalize_cache(existing_cache), k).val[f]
    ELSE default

\* the RepoInfo value of a field of the entry's repository, or the default
RepoField(k, f, default) ==
    IF HasRepoInfo(k) THEN repo_info[UrlOfKey(k)][f] ELSE default

\* the final value of an optional field of a retained entry ("" when the key is absent)
FinalField(k, f) == IF f \in DOMAIN FinalOf(k) THEN FinalOf(k)[f] ELSE ""

\* C1 as stated: after the merge, an entry of the original catalog is missing from
\* the final catalog if and only if its RepoInfo exists and its status is deleted,
\* or is not success while no CacheEntry (read here as a non-empty object under its
\* key) exists; every other entry of the original catalog is present.
C1_Original ==
    Merged =>
      \A k \in CatalogKeys :
        (k \notin ResultKeys) <=>
          (HasRepoInfo(k) /\ (StatusOfKey(k) = "deleted"
                              \/ (StatusOfKey(k) # "success" /\ ~CacheHasObject(k))))

\* C1 amended: after the merge, a catalog entry that is an object is missing from
\* the final catalog if and only if its RepoInfo exists and its status is deleted,
\* or is not success while the cache holds no non-empty object under its key; a
\* catalog entry that is not an object is never emitted; nothing else is removed.
C1_DropIff ==
    Merged =>
      \A k \in CatalogKeys :
        IF IsDict(PluginOf(k))
        THEN (k \notin ResultKeys) <=>
               (HasRepoInfo(k) /\ (StatusOfKey(k) = "deleted"
                                   \/ (StatusOfKey(k) # "success" /\ ~CacheHasObject(k))))
        ELSE k \notin ResultKeys

\* a merge that dropped p1 (failed status, no cache entry) and kept p2 (same
\* failed repository, cache entry present)
C1_Witness ==
    /\ Merged
    /\ CatalogKeys = {"p1", "p2"}
    /\ IsDict(PluginOf("p1")) /\ IsDict(PluginOf("p2"))
    /\ HasRepoInfo("p1") /\ StatusOfKey("p1") = "api_limit"
    /\ HasRepoInfo("p2") /\ StatusOfKey("p2") = "api_limit"
    /\ ~CacheHasKey("p1") /\ CacheHasObject("p2")
    /\ ResultKeys = {"p2"}

\* C6: every retained entry's stars is RepoInfo.stars when the RepoInfo status is
\* exactly success, and otherwise (no RepoInfo, or any other status, cached
\* included) the stars cached under the plugin key, 0 when there is no cached value.
C6_Stars ==
    Merged =>
      \A k \in ResultKeys :
        FinalOf(k)["stars"] =
          (IF HasRepoInfo(k) /\ StatusOfKey(k) = "success"
           THEN repo_info[UrlOfKey(k)].stars
           ELSE CacheField(k, "stars", 0))

\* a retained entry whose RepoInfo is cached with stars 10 and whose own cache
\* entry says 0 stars: the final value is the key's cached 0
C6_Witness ==
    /\ Merged
    /\ "p1" \in ResultKeys
    /\ HasRepoInfo("p1") /\ StatusOfKey("p1") = "cached"
    /\ repo_info[UrlOfKey("p1")].stars = 10
    /\ CacheHasObject("p1") /\ CacheField("p1", "stars", 5) = 0
    /\ FinalOf("p1")["stars"] = 0

\* the value chosen for a field: RepoInfo's if non-empty, else the cache's
Chosen(k, f) ==
    IF RepoField(k, f, "") # "" THEN RepoField(k, f, "") ELSE CacheField(k, f, "")

\* C7: for every retained entry, version, updated_at and logo are each the RepoInfo
\* value if non-empty, else the cached value if non-empty, whatever the status; with
\* both empty the version is "1.0.0" and the updated_at / logo key is absent, also
\* when the catalog entry carried one; an entry with neither RepoInfo nor cache
\* entry is retained with version "1.0.0", stars 0 and no updated_at / logo key.
C7_Fields ==
    Merged =>
      /\ \A k \in ResultKeys :
           /\ FinalOf(k)["version"] =
                (IF Chosen(k, "version") # "" THEN Chosen(k, "version") ELSE "1.0.0")
           /\ \A f \in {"updated_at", "logo"} :
                IF Chosen(k, f) # ""
                THEN f \in DOMAIN FinalOf(k) /\ FinalOf(k)[f] = Chosen(k, f)
                ELSE f \notin DOMAIN FinalOf(k)
      /\ \A k \in CatalogKeys :
           (IsDict(PluginOf(k)) /\ ~HasRepoInfo(k) /\ ~CacheHasKey(k)) =>
             /\ k \in ResultKeys
             /\ FinalOf(k)["version"] = "1.0.0"
             /\ FinalOf(k)["stars"] = 0
             /\ DOMAIN FinalOf(k) \cap {"updated_at", "logo"} = {}

\* a retained entry that takes its version from RepoInfo and its updated_at from
\* the cache, and whose catalog entry carried a logo key that the merge removed
C7_Witness ==
    /\ Merged
    /\ "p1" \in ResultKeys
    /\ "logo" \in DOMAIN PluginOf("p1").val
    /\ HasRepoInfo("p1")
    /\ RepoField("p1", "version", "") = "2.0.0" /\ RepoField("p1", "updated_at", "") = ""
    /\ CacheField("p1", "updated_at", "") # "" /\ CacheField("p1", "version", "") # ""
    /\ FinalOf("p1")["version"] = "2.0.0"
    /\ FinalField("p1", "updated_at") = CacheField("p1", "updated_at", "")
    /\ "logo" \notin DOMAIN FinalOf("p1")

\* the premise of the round trip: an empty cache and a RepoInfo of status success
\* for the repository of every catalog entry
RoundTripInputs ==
    /\ normalize_cache(existing_cache) = <<>>
    /\ \A k \in CatalogKeys :
         IsDict(PluginOf(k)) /\ HasRepoInfo(k) /\ StatusOfKey(k) = "success"

\* C8 as stated: merged against an empty cache with all-success RepoInfo, each final
\* entry's stars, version, updated_at and logo are exactly the RepoInfo values (an
\* empty value being an absent key), with no default substituted.
C8_Original ==
    (Merged /\ RoundTripInputs) =>
      \A k \in ResultKeys :
        /\ FinalOf(k)["stars"] = RepoField(k, "stars", 0)
        /\ FinalOf(k)["version"] = RepoField(k, "version", "")
        /\ FinalField(k, "updated_at") = RepoField(k, "updated_at", "")
        /\ FinalField(k, "logo") = RepoField(k, "logo", "")

\* C8 amended: merged against an empty cache with all-success RepoInfo, every entry
\* is retained and its stars, updated_at and logo are exactly the RepoInfo values (an
\* empty updated_at or logo being an absent key); its version is the RepoInfo version
\* when that is non-empty and the literal "1.0.0" when it is empty.
C8_RoundTrip ==
    (Merged /\ RoundTripInputs) =>
      /\ ResultKeys = CatalogKeys
      /\ \A k \in ResultKeys :
           /\ FinalOf(k)["stars"] = RepoField(k, "stars", 0)
           /\ FinalOf(k)["version"] =
                (IF RepoField(k, "version", "") # ""
                 THEN RepoField(k, "version", "") ELSE "1.0.0")
           /\ \A f \in {"updated_at", "logo"} :
                /\ FinalField(k, f) = RepoField(k, f, "")
                /\ (f \in DOMAIN FinalOf(k)) <=> (RepoField(k, f, "") # "")

\* the scenario of the specification: stars 42, version 2.0.0, an updated_at, no
\* logo, for an entry that carried stale values of all four
C8_Witness ==
    /\ Merged /\ RoundTripInputs
    /\ "p1" \in ResultKeys
    /\ PluginOf("p1").val = StalePlugin(UrlFoo)
    /\ repo_info[UrlFoo] = RepoInfo(42, "2024-01-01T00:00:00Z", "2.0.0", "", "success")
    /\ FinalOf("p1")["stars"] = 42
    /\ FinalOf("p1")["version"] = "2.0.0"
    /\ FinalOf("p1")["updated_at"] = "2024-01-01T00:00:00Z"
    /\ "logo" \notin DOMAIN FinalOf("p1")

\* C9: a second run of the merge on the same catalog, RepoInfo map and cache yields
\* the same final catalog as the first (same keys, same order, same values), and
\* writes the same artifact.
C9_SameTwice ==
    (hist.merges = 2) =>
      /\ result = hist.first_result
      /\ files[ARTIFACT] = ToJson(hist.first_result)

\* a second run that produced a two-entry catalog
C9_Witness ==
    /\ hist.merges = 2
    /\ pc = "merged_again"
    /\ Len(result) = 2
    /\ result = hist.first_result

(***************************************************************************)
(* Repository Enricher: fetch_repo, extract_version, extract_logo,         *)
(* process_repo (lines 165-281)                                            *)
(***************************************************************************)
MAX_RETRIES == 5

\* a decoded response body: None, a JSON value that is no object, or an object
Payload(kind, body) == [kind |-> kind, body |-> body]
PNone == Payload("none", EmptyDict)
PList == Payload("list", EmptyDict)
PEmptyDict == Payload("dict", EmptyDict)

\* repository objects as the API returns them
PRepoA == Payload("dict", [stargazers_count |-> 42,
                           updated_at |-> "2024-01-01T00:00:00Z",
                           default_branch |-> "dev"])
PRepoB == Payload("dict", [stargazers_count |-> 0, updated_at |-> ""])

\* what http_get_json returns (lines 62-79): (payload, status); a transport
\* failure or an undecodable body is (None, -1)
Outcome(status, payload) == [status |-> status, payload |-> payload]
TransportFailure == Outcome(-1, PNone)

HttpStatuses == {200, 301, 302, 403, 404, 429, 500, 502, 503, 504}

Outcomes ==
    {TransportFailure}
    \cup {Outcome(st, pl) : st \in HttpStatuses,
                            pl \in {PNone, PList, PEmptyDict, PRepoA, PRepoB}}

\* payload if isinstance(payload, dict) else {}   (lines 180, 182, 184)
dict_or_empty(payload) == IF payload.kind = "dict" THEN payload ELSE PEmptyDict

mutant_classify_retry_404(o) ==
    IF o.payload.kind = "none" /\ o.status = -1
    THEN [stop |-> FALSE, payload |-> PNone, status |-> "unknown"]
    ELSE IF /\ o.status = 200
            /\ o.payload.kind = "dict"
            /\ "stargazers_count" \in DOMAIN o.payload.body
    THEN [stop |-> TRUE, payload |-> o.payload, status |-> "success"]
    ELSE IF o.status \in {301, 302}
    THEN [stop |-> TRUE, payload |-> dict_or_empty(o.payload), status |-> "redirected"]
    ELSE IF o.status = 403
    THEN [stop |-> TRUE, payload |-> dict_or_empty(o.payload), status |-> "api_limit"]
    ELSE [stop |-> FALSE, payload |-> PNone, status |-> "unknown"]

\* the if/elif chain of one attempt, lines 175-189: whether fetch_repo returns
\* at this attempt, and what
classify(o) ==
    IF o.payload.kind = "none" /\ o.status = -1
    THEN [stop |-> FALSE, payload |-> PNone, status |-> "unknown"]
    ELSE IF /\ o.status = 200
            /\ o.payload.kind = "dict"
            /\ "stargazers_count" \in DOMAIN o.payload.body
    THEN [stop |-> TRUE, payload |-> o.payload, status |-> "success"]
    ELSE IF o.status \in {301, 302}
    THEN [stop |-> TRUE, payload |-> dict_or_empty(o.payload), status |-> "redirected"]
    ELSE IF o.status = 404
    THEN [stop |-> TRUE, payload |-> dict_or_empty(o.payload), status |-> "deleted"]
    ELSE IF o.status = 403
    THEN [stop |-> TRUE, payload |-> dict_or_empty(o.payload), status |-> "api_limit"]
    ELSE [stop |-> FALSE, payload |-> PNone, status |-> "unknown"]

mutant_backoff_uncapped(base, max, attempt) == base * (2 ^ (attempt - 2))

\* min(BASE_DELAY * (2 ** (attempt - 2)), MAX_DELAY), line 169, for attempt > 1
backoff_delay(base, max, attempt) ==
    LET d == base * (2 ^ (attempt - 2)) IN IF d < max THEN d ELSE max

\* the values random.uniform(0, delay * 0.5) ranges between (line 170): its two ends
Jitters(delay) ==
    {0, IF delay >= 0 THEN delay \div 2 ELSE 0 - ((0 - delay) \div 2)}

\* the state of one process_repo call
NewTask ==
    [pc |-> "start", attempt |-> 0, last |-> Outcome(0, PNone),
     payload |-> PNone, status |-> "unknown", delays |-> <<>>, calls |-> <<>>,
     info |-> RepoInfo(0, "", "", "", "unknown")]

\* one iteration of fetch_repo in which a transport failure is not caught by
\* http_get_json but raised into the call
mutant_fetch_repo_attempt_transport_raises(t, o, jitter, base, max) ==
    LET attempt == t.attempt + 1
        delay   == backoff_delay(base, max, attempt)
        slept   == IF attempt > 1 THEN [t EXCEPT !.delays = Append(@, delay)] ELSE t
        c       == classify(o)
    IN
    IF (attempt > 1 /\ delay + jitter < 0) \/ o = TransportFailure
    THEN [slept EXCEPT !.attempt = attempt, !.pc = "raised"]
    ELSE IF c.stop
    THEN [slept EXCEPT !.attempt = attempt, !.last = o, !.calls = Append(@, "repo"),
                       !.payload = c.payload, !.status = c.status, !.pc = "fetched"]
    ELSE IF attempt < MAX_RETRIES
    THEN [slept EXCEPT !.attempt = attempt, !.last = o, !.calls = Append(@, "repo")]
    ELSE [slept EXCEPT !.attempt = attempt, !.last = o, !.calls = Append(@, "repo"),
                       !.payload = PNone, !.status = "network_error", !.pc = "fetched"]

\* one iteration of the loop of fetch_repo, lines 167-192, and the return of
\* line 194 when it was the last: t is the call's state, o the answer of
\* http_get_json, jitter the random part of the sleep. time.sleep raises
\* ValueError on a negative length, which ends process_repo by an exception.
fetch_repo_attempt(t, o, jitter, base, max) ==
    LET attempt == t.attempt + 1
        delay   == backoff_delay(base, max, attempt)
        slept   == IF attempt > 1 THEN [t EXCEPT !.delays = Append(@, delay)] ELSE t
        c       == classify(o)
    IN
    IF attempt > 1 /\ delay + jitter < 0
    THEN [slept EXCEPT !.attempt = attempt, !.pc = "raised"]
    ELSE IF c.stop
    THEN [slept EXCEPT !.attempt = attempt, !.last = o, !.calls = Append(@, "repo"),
                       !.payload = c.payload, !.status = c.status, !.pc = "fetched"]
    ELSE IF attempt < MAX_RETRIES
    THEN [slept EXCEPT !.attempt = attempt, !.last = o, !.calls = Append(@, "repo")]
    ELSE [slept EXCEPT !.attempt = attempt, !.last = o, !.calls = Append(@, "repo"),
                       !.payload = PNone, !.status = "network_error", !.pc = "fetched"]

\* a file of the contents endpoint: the base64 text of its "content" field decodes
\* (or not) to lines, each a key and the value VERSION_RE captures after it, stripped
FileContent(b64ok, lines) == [b64ok |-> b64ok, lines |-> lines]

\* a contents-endpoint answer as extract_version and extract_logo read it:
\* status, whether the payload is an object, its "name", its "content" (a
\* sequence: empty when the field is absent or no non-empty string)
ContentsAnswer(status, isdict, name, content) ==
    [status |-> status, isdict |-> isdict, name |-> name, content |-> content]

NotFound == ContentsAnswer(404, TRUE, "", <<>>)

MetadataWith(v) ==
    ContentsAnswer(200, TRUE, "metadata",
                   <<FileContent(TRUE, <<[key |-> "name", value |-> "x"],
                                         [key |-> "version", value |-> v]>>)>>)

MetadataAnswers(v) ==
    {NotFound,
     ContentsAnswer(-1, FALSE, "", <<>>),
     ContentsAnswer(200, FALSE, "", <<>>),
     ContentsAnswer(200, TRUE, "metadata", <<>>),
     ContentsAnswer(200, TRUE, "metadata", <<FileContent(FALSE, <<>>)>>),
     ContentsAnswer(200, TRUE, "metadata",
                    <<FileContent(TRUE, <<[key |-> "name", value |-> "x"]>>)>>),
     MetadataWith(v)}

LogoAnswers ==
    {NotFound,
     ContentsAnswer(-1, FALSE, "", <<>>),
     ContentsAnswer(200, FALSE, "", <<>>),
     ContentsAnswer(200, TRUE, "other.png", <<>>),
     ContentsAnswer(200, TRUE, "logo.png", <<>>)}

\* VERSION_RE.search(metadata_text), lines 20, 210: the positions of the lines
\* that match
version_lines(lines) == {i \in 1..Len(lines) : lines[i].key = "version"}

\* the body of the loop of extract_version for one file, lines 200-212:
\* whether it returns, and the version it returns
extract_version_file(a) ==
    IF a.status # 200 \/ ~a.isdict THEN [hit |-> FALSE, version |-> ""]
    ELSE IF a.content = <<>> THEN [hit |-> FALSE, version |-> ""]
    ELSE IF ~a.content[1].b64ok THEN [hit |-> FALSE, version |-> ""]
    ELSE LET ls == a.content[1].lines IN
         IF version_lines(ls) = {} THEN [hit |-> FALSE, version |-> ""]
         ELSE [hit |-> TRUE,
               version |-> ls[CHOOSE i \in version_lines(ls) :
                                 \A j \in version_lines(ls) : i <= j].value]

\* extract_version that requests both files and prefers metadata.yaml
mutant_extract_version_both_yaml_first(yml, yaml) ==
    IF extract_version_file(yaml).hit
    THEN [version |-> extract_version_file(yaml).version,
          calls |-> <<"metadata.yml", "metadata.yaml">>]
    ELSE IF extract_version_file(yml).hit
    THEN [version |-> extract_version_file(yml).version,
          calls |-> <<"metadata.yml", "metadata.yaml">>]
    ELSE [version |-> "", calls |-> <<"metadata.yml", "metadata.yaml">>]

\* extract_version(owner, repo), lines 197-213: metadata.yml, then metadata.yaml;
\* the version and the requests made
extract_version(yml, yaml) ==
    IF extract_version_file(yml).hit
    THEN [version |-> extract_version_file(yml).version,
          calls |-> <<"metadata.yml">>]
    ELSE IF extract_version_file(yaml).hit
    THEN [version |-> extract_version_file(yaml).version,
          calls |-> <<"metadata.yml", "metadata.yaml">>]
    ELSE [version |-> "", calls |-> <<"metadata.yml", "metadata.yaml">>]

\* f"https://raw.githubusercontent.com/{owner}/{repo}/{default_branch}/logo.png"
RawLogoUrl(owner, repo, branch) ==
    CASE <<owner, repo, branch>> = <<"acme", "foo", "main">> ->
           "https://raw.githubusercontent.com/acme/foo/main/logo.png"
      [] <<owner, repo, branch>> = <<"acme", "foo", "dev">> ->
           "https://raw.githubusercontent.com/acme/foo/dev/logo.png"
      [] <<owner, repo, branch>> = <<"acme", "bar", "main">> ->
           "https://raw.githubusercontent.com/acme/bar/main/logo.png"
      [] <<owner, repo, branch>> = <<"acme", "bar", "dev">> ->
           "https://raw.githubusercontent.com/acme/bar/dev/logo.png"
      [] OTHER -> "https://raw.githubusercontent.com/other/logo.png"

\* extract_logo(owner, repo, default_branch), lines 216-221
extract_logo(owner, repo, default_branch, a) ==
    IF a.status = 200 /\ a.isdict /\ a.name = "logo.png"
    THEN RawLogoUrl(owner, repo, default_branch)
    ELSE ""

\* the by-repository index the tasks share, line 296
cache_by_repo == build_cache_by_repo(normalize_cache(existing_cache))

mutant_fallback_no_trivial_test(by_repo, repo_url, has_cache) ==
    has_cache /\ repo_url \in DOMAIN by_repo

\* lines 256-258: the fallback applies
fallback_applies(by_repo, repo_url, has_cache) ==
    /\ has_cache
    /\ repo_url \in DOMAIN by_repo
    /\ (by_repo[repo_url].stars # 0 \/ by_repo[repo_url].updated_at # "")

\* process_repo after a successful fetch_repo, lines 246-254 and 275-281: t is the
\* call's state, yml, yaml and logo the answers of the contents endpoint
process_repo_success(t, repo_url, yml, yaml, logo) ==
    LET body    == t.payload.body
        owner   == repo_url.path[1]
        repo    == repo_url.path[2]
        branch  == DictGet(body, "default_branch", "main")
        ver     == extract_version(yml, yaml)
    IN [t EXCEPT !.pc = "done",
                 !.calls = @ \o ver.calls \o <<"logo.png">>,
                 !.info = RepoInfo(DictGet(body, "stargazers_count", 0),
                                   DictGet(body, "updated_at", ""),
                                   ver.version,
                                   extract_logo(owner, repo, branch, logo),
                                   "success")]

\* process_repo after a failed fetch_repo, lines 255-264 and 275-281
process_repo_failed(t, repo_url, by_repo, has_cache) ==
    IF fallback_applies(by_repo, repo_url, has_cache)
    THEN [t EXCEPT !.pc = "done", !.status = "cached",
                   !.info = RepoInfo(by_repo[repo_url].stars,
                                     by_repo[repo_url].updated_at,
                                     by_repo[repo_url].version,
                                     by_repo[repo_url].logo,
                                     "cached")]
    ELSE [t EXCEPT !.pc = "done", !.info = RepoInfo(0, "", "", "", t.status)]

\* the test of line 246
fetch_succeeded(t) == t.status = "success" /\ t.payload.kind = "dict"

mutant_process_repo_start_no_check(t, repo_url) == [t EXCEPT !.pc = "fetch"]

\* process_repo up to the call of fetch_repo, lines 225-243
process_repo_start(t, repo_url) ==
    IF ~REPO_URL_RE_match(repo_url)
    THEN [t EXCEPT !.pc = "done", !.info = RepoInfo(0, "", "", "", "invalid_repo_url")]
    ELSE [t EXCEPT !.pc = "fetch"]

(***************************************************************************)
(* Steps of one process_repo call                                          *)
(***************************************************************************)
EnrichFrame ==
    UNCHANGED <<pc, should_update, has_changes, exit_code, original_plugins,
                existing_cache, has_existing_cache, repo_info, result, files,
                hist, BASE_DELAY, MAX_DELAY, MAX_WORKERS>>

\* the calls a worker thread of the pool is executing
Running == {u \in DOMAIN tasks : tasks[u].pc \in {"fetch", "fetched"}}

\* a free worker of the pool (line 310) takes the call: lines 225-243
Start(u) ==
    /\ u \in DOMAIN tasks
    /\ tasks[u].pc = "start"
    /\ Cardinality(Running) < hist.worker_count
    /\ tasks' = [tasks EXCEPT ![u] = process_repo_start(@, u)]
    /\ EnrichFrame

\* one attempt of fetch_repo with an answer from the set O
Attempt(u, O) ==
    /\ u \in DOMAIN tasks
    /\ tasks[u].pc = "fetch"
    /\ \E o \in O :
       \E jitter \in (IF tasks[u].attempt >= 1
                      THEN Jitters(backoff_delay(BASE_DELAY, MAX_DELAY, tasks[u].attempt + 1))
                      ELSE {0}) :
          tasks' = [tasks EXCEPT ![u] =
                      fetch_repo_attempt(@, o, jitter, BASE_DELAY, MAX_DELAY)]
    /\ EnrichFrame

\* lines 246-254, 275-281: the fetch succeeded
FinishSuccess(u, V1, V2) ==
    /\ u \in DOMAIN tasks
    /\ tasks[u].pc = "fetched"
    /\ fetch_succeeded(tasks[u])
    /\ \E yml \in V1, yaml \in V2, logo \in LogoAnswers :
          tasks' = [tasks EXCEPT ![u] = process_repo_success(@, u, yml, yaml, logo)]
    /\ EnrichFrame

\* lines 255-281: the fetch failed
FinishFailed(u) ==
    /\ u \in DOMAIN tasks
    /\ tasks[u].pc = "fetched"
    /\ ~fetch_succeeded(tasks[u])
    /\ tasks' = [tasks EXCEPT ![u] =
                   process_repo_failed(@, u, cache_by_repo, has_existing_cache)]
    /\ EnrichFrame

(***************************************************************************)
(* Specification of one primary fetch under every delay configuration      *)
(***************************************************************************)
\* values of the BASE_DELAY and MAX_DELAY environment settings (lines 23-24)
BaseDelays == {-1, 0, 1, 2}
MaxDelays == {-1, 0, 3, 30}

YmlAnswers == MetadataAnswers("2.0.0")
YamlAnswers == MetadataAnswers("3.0.0")

TaskStart == \E u \in DOMAIN tasks : Start(u)
TaskAttempt == \E u \in DOMAIN tasks : Attempt(u, Outcomes)
TaskSuccess == \E u \in DOMAIN tasks : FinishSuccess(u, YmlAnswers, YamlAnswers)
TaskFailed == \E u \in DOMAIN tasks : FinishFailed(u)

\* one process_repo call for a well-formed URL, no cache
InitFetch ==
    /\ pc = "enrich"
    /\ should_update = TRUE
    /\ has_changes = FALSE
    /\ exit_code = -1
    /\ original_plugins = <<[key |-> "p1", value |-> JDict(PlainPlugin(UrlFoo))]>>
    /\ existing_cache = EmptyCache
    /\ has_existing_cache = FALSE
    /\ repo_info = EmptyDict
    /\ tasks = [u \in {UrlFoo} |-> NewTask]
    /\ result = <<>>
    /\ files = EmptyDict
    /\ hist = HistEnrich
    /\ BASE_DELAY \in BaseDelays
    /\ MAX_DELAY \in MaxDelays
    /\ MAX_WORKERS = 12

NextFetch == TaskStart \/ TaskAttempt \/ TaskSuccess \/ TaskFailed

SpecFetch == InitFetch /\ [][NextFetch]_vars

(***************************************************************************)
(* Specification of one process_repo call for every URL and cache          *)
(***************************************************************************)
EnrichUrls == {UrlFoo, UrlBarGit, UrlHttp, UrlOther, UrlDeep, UrlOwner}

\* cache entries as build_cache_by_repo reads them
RepoCacheValues ==
    {JStr, JDict([desc |-> "d"])}
    \cup {JDict(Restrict([repo |-> u, stars |-> s, version |-> "1.2.0",
                          updated_at |-> "2023-05-05T00:00:00Z",
                          logo |-> "raw/foo/old/logo.png"], ks)) :
            u \in {UrlFoo, UrlHttp}, s \in {0, 10},
            ks \in {{"repo", "stars", "version", "logo"},
                    {"repo", "stars", "version", "updated_at", "logo"},
                    {"repo", "stars"}}}

\* a later entry naming the same repository as p1's
LaterEntry == JDict([repo |-> UrlFoo, stars |-> 3, version |-> "9.9.9",
                     updated_at |-> "2022-02-02T00:00:00Z"])

EnrichCaches ==
    {RawCache(sh, CacheItems(e1, e2)) :
        sh \in {"plain", "wrapped"},
        e1 \in {<<>>} \cup {<<c>> : c \in RepoCacheValues},
        e2 \in {<<>>, <<LaterEntry>>}}
    \cup {RawCache("notdict", <<>>)}

InitEnrich ==
    /\ pc = "enrich"
    /\ should_update = TRUE
    /\ has_changes = FALSE
    /\ exit_code = -1
    /\ \E u \in EnrichUrls :
          /\ original_plugins = <<[key |-> "p1", value |-> JDict(PlainPlugin(u))]>>
          /\ tasks = [x \in {u} |-> NewTask]
    /\ has_existing_cache \in BOOLEAN
    /\ existing_cache \in (IF has_existing_cache THEN EnrichCaches ELSE {EmptyCache})
    /\ repo_info = EmptyDict
    /\ result = <<>>
    /\ files = EmptyDict
    /\ hist = HistEnrich
    /\ BASE_DELAY = 2
    /\ MAX_DELAY = 30
    /\ MAX_WORKERS = 12

NextEnrich == TaskStart \/ TaskAttempt \/ TaskSuccess \/ TaskFailed

SpecEnrich == InitEnrich /\ [][NextEnrich]_vars

(***************************************************************************)
(* Properties of the enricher (checked under SpecEnrich and SpecFetch)     *)
(***************************************************************************)
\* an answer that ends the primary fetch: 200 with the repository field, 301/302,
\* 404, 403
TerminalAnswer(o) ==
    \/ (o.status = 200 /\ o.payload.kind = "dict"
        /\ "stargazers_count" \in DOMAIN o.payload.body)
    \/ o.status \in {301, 302, 403, 404}

\* the status the primary fetch of a finished call ended in, from its last answer
PrimaryStatus(t) ==
    IF ~TerminalAnswer(t.last) THEN "network_error"
    ELSE IF t.last.status = 200 THEN "success"
    ELSE IF t.last.status \in {301, 302} THEN "redirected"
    ELSE IF t.last.status = 404 THEN "deleted"
    ELSE "api_limit"

\* the by-repository record of a URL is non-trivial
NonTrivialRecord(u) ==
    /\ u \in DOMAIN cache_by_repo
    /\ (cache_by_repo[u].stars # 0 \/ cache_by_repo[u].updated_at # "")

\* C2: for a well-formed URL whose primary fetch ended in redirected, deleted,
\* api_limit or network_error, process_repo returns status cached with stars,
\* updated_at, version and logo equal to the by-repository record when a cache
\* snapshot exists and that record is non-trivial, and otherwise the fetch's own
\* status with stars 0 and empty updated_at, version and logo.
C2_Fallback ==
    \A u \in DOMAIN tasks :
      (tasks[u].pc = "done" /\ tasks[u].attempt >= 1
       /\ PrimaryStatus(tasks[u]) # "success") =>
        IF has_existing_cache /\ NonTrivialRecord(u)
        THEN tasks[u].info = RepoInfo(cache_by_repo[u].stars,
                                      cache_by_repo[u].updated_at,
                                      cache_by_repo[u].version,
                                      cache_by_repo[u].logo, "cached")
        ELSE tasks[u].info = RepoInfo(0, "", "", "", PrimaryStatus(tasks[u]))

\* a 404 at the second attempt answered from the cache: the record of the later
\* of the two cache entries that name the repository
C2_Witness ==
    /\ UrlFoo \in DOMAIN tasks
    /\ tasks[UrlFoo].pc = "done"
    /\ tasks[UrlFoo].attempt = 2
    /\ tasks[UrlFoo].last.status = 404
    /\ Len(normalize_cache(existing_cache)) = 2
    /\ tasks[UrlFoo].info = RepoInfo(3, "2022-02-02T00:00:00Z", "9.9.9", "", "cached")

MalformedUrls == {UrlHttp, UrlOther, UrlDeep, UrlOwner}

\* C3: for a URL that does not match the pattern, process_repo returns status
\* invalid_repo_url with stars 0 and empty updated_at, version and logo, makes no
\* request at all, and does not apply the cache fallback even when a non-trivial
\* by-repository record exists for the URL.
C3_InvalidUrl ==
    \A u \in (DOMAIN tasks) \cap MalformedUrls :
      /\ tasks[u].pc \in {"start", "done"}
      /\ tasks[u].calls = <<>>
      /\ tasks[u].attempt = 0
      /\ tasks[u].pc = "done" =>
            tasks[u].info = RepoInfo(0, "", "", "", "invalid_repo_url")

\* a malformed URL with a non-trivial cached record, returned as invalid
C3_Witness ==
    /\ UrlHttp \in DOMAIN tasks
    /\ tasks[UrlHttp].pc = "done"
    /\ has_existing_cache /\ NonTrivialRecord(UrlHttp)
    /\ tasks[UrlHttp].info.status = "invalid_repo_url"
    /\ tasks[UrlHttp].calls = <<>>

\* the requests a call made to the repository endpoint
RepoCalls(t) == Cardinality({i \in 1..Len(t.calls) : t.calls[i] = "repo"})

\* C4: the primary fetch makes at most MAX_RETRIES attempts; while it is still
\* looping every answer so far was retryable and attempts remain; once it has
\* returned, its last answer was the first terminal one (success for 200 with the
\* repository field, redirected for 301/302, deleted for 404, api_limit for 403), or
\* all MAX_RETRIES answers were retryable, and the result is network_error exactly
\* in that second case; no request follows the return and the loop is never
\* left by an exception.
C4_Retry ==
    \A u \in DOMAIN tasks :
      LET t == tasks[u] IN
      /\ t.pc # "raised"
      /\ t.attempt <= MAX_RETRIES
      /\ RepoCalls(t) <= MAX_RETRIES
      /\ (t.pc = "fetch" /\ t.attempt >= 1) =>
            (~TerminalAnswer(t.last) /\ t.attempt < MAX_RETRIES
             /\ RepoCalls(t) = t.attempt)
      /\ (t.pc = "fetched") =>
            /\ RepoCalls(t) = t.attempt
            /\ TerminalAnswer(t.last) \/ t.attempt = MAX_RETRIES
            /\ t.status = PrimaryStatus(t)
            /\ (t.status = "network_error") <=>
                  (t.attempt = MAX_RETRIES /\ ~TerminalAnswer(t.last))
      /\ (t.pc = "done" /\ REPO_URL_RE_match(u)) =>
            /\ RepoCalls(t) = t.attempt
            /\ TerminalAnswer(t.last) \/ t.attempt = MAX_RETRIES

\* a fetch that was retried twice and stopped at a 404 on its third attempt
C4_Witness ==
    /\ UrlFoo \in DOMAIN tasks
    /\ tasks[UrlFoo].pc = "fetched"
    /\ tasks[UrlFoo].attempt = 3
    /\ tasks[UrlFoo].last.status = 404
    /\ tasks[UrlFoo].status = "deleted"
    /\ tasks[UrlFoo].calls = <<"repo", "repo", "repo">>

\* C5: the backoff delays of one primary fetch, jitter apart, are non-decreasing
\* in the attempt number and never exceed MAX_DELAY, for every BASE_DELAY and
\* MAX_DELAY; there is one delay per attempt after the first and none before it.
C5_Backoff ==
    \A u \in DOMAIN tasks :
      LET d == tasks[u].delays IN
      /\ \A i \in 1..Len(d) : d[i] <= MAX_DELAY
      /\ \A i, j \in 1..Len(d) : i <= j => d[i] <= d[j]
      /\ Len(d) = (IF tasks[u].attempt = 0 THEN 0 ELSE tasks[u].attempt - 1)

\* five attempts with the delay growing from 1 to the cap of 3
C5_Witness ==
    /\ UrlFoo \in DOMAIN tasks
    /\ BASE_DELAY = 1 /\ MAX_DELAY = 3
    /\ tasks[UrlFoo].attempt = MAX_RETRIES
    /\ tasks[UrlFoo].delays = <<1, 2, 3, 3>>

(***************************************************************************)
(* main (lines 561-591) and the phases it calls                            *)
(***************************************************************************)
Response(transport_ok, status, blank, bytes, json, catalog) ==
    [transport_ok |-> transport_ok, status |-> status, blank |-> blank,
     bytes |-> bytes, json |-> json, catalog |-> catalog]

\* fetch_original_plugin_data without the size test of line 109
mutant_fetch_no_size_check(r) ==
    IF ~r.transport_ok THEN [ok |-> FALSE, data |-> <<>>]
    ELSE IF r.status # 200 THEN [ok |-> FALSE, data |-> <<>>]
    ELSE IF r.blank THEN [ok |-> FALSE, data |-> <<>>]
    ELSE IF r.json = "invalid" THEN [ok |-> FALSE, data |-> <<>>]
    ELSE IF r.json \in {"emptyobj", "emptyarray", "null"} THEN [ok |-> FALSE, data |-> <<>>]
    ELSE IF r.json # "object" THEN [ok |-> FALSE, data |-> <<>>]
    ELSE [ok |-> TRUE, data |-> r.catalog]

\* fetch_original_plugin_data, lines 88-126, on the answer r of the catalog
\* source: (ok, catalog). r.blank is "not body.strip()", r.bytes the encoded
\* length, r.json what json.loads makes of the body.
fetch_original_plugin_data(r) ==
    IF ~r.transport_ok THEN [ok |-> FALSE, data |-> <<>>]
    ELSE IF r.status # 200 THEN [ok |-> FALSE, data |-> <<>>]
    ELSE IF r.blank THEN [ok |-> FALSE, data |-> <<>>]
    ELSE IF r.bytes < 50 THEN [ok |-> FALSE, data |-> <<>>]
    ELSE IF r.json = "invalid" THEN [ok |-> FALSE, data |-> <<>>]
    ELSE IF r.json \in {"emptyobj", "emptyarray", "null"} THEN [ok |-> FALSE, data |-> <<>>]
    ELSE IF r.json # "object" THEN [ok |-> FALSE, data |-> <<>>]
    ELSE [ok |-> TRUE, data |-> r.catalog]

\* load_json(path, fallback), lines 35-40, on a file that exists
load_json(content, fallback) ==
    IF content.shape = "invalid" THEN fallback ELSE content

\* the loop of lines 288-294 without the "not in seen" test
RECURSIVE mutant_repo_urls_no_seen(_, _, _)
mutant_repo_urls_no_seen(acc, plugins, i) ==
    IF i > Len(plugins) THEN acc
    ELSE LET plugin == plugins[i].value
             repo_url == IF IsDict(plugin) THEN DictGet(plugin.val, "repo", EmptyUrl)
                         ELSE EmptyUrl
         IN IF IsDict(plugin) /\ NonEmptyUrl(repo_url)
            THEN mutant_repo_urls_no_seen(Append(acc, repo_url), plugins, i + 1)
            ELSE mutant_repo_urls_no_seen(acc, plugins, i + 1)

\* the loop of lines 288-294: acc is repo_urls so far (seen is its set of elements)
RECURSIVE repo_urls_loop(_, _, _)
repo_urls_loop(acc, plugins, i) ==
    IF i > Len(plugins) THEN acc
    ELSE LET plugin == plugins[i].value
             repo_url == IF IsDict(plugin) THEN DictGet(plugin.val, "repo", EmptyUrl)
                         ELSE EmptyUrl
             seen == {acc[j] : j \in 1..Len(acc)}
         IN IF IsDict(plugin) /\ NonEmptyUrl(repo_url) /\ repo_url \notin seen
            THEN repo_urls_loop(Append(acc, repo_url), plugins, i + 1)
            ELSE repo_urls_loop(acc, plugins, i + 1)

\* repo_urls, lines 286-294: the distinct non-empty repository URLs of the
\* catalog in the order of their first appearance
repo_urls_of(plugins) == repo_urls_loop(<<>>, plugins, 1)

\* line 309 without the min against MAX_WORKERS
mutant_worker_count_uncapped(n) == IF n > 1 THEN n ELSE 1

\* min(MAX_WORKERS, max(1, len(repo_urls))), line 309
worker_count_of(n) ==
    LET m == IF n > 1 THEN n ELSE 1 IN IF MAX_WORKERS < m THEN MAX_WORKERS ELSE m

\* print_summary(should_update, has_changes), lines 546-558: the outcome reported
print_summary(su, hc) ==
    IF su THEN (IF hc THEN "published" ELSE "nochange") ELSE "skipped"

TransientFiles ==
    {"temp_plugin_cache_original.json", "temp_response.txt", "temp_headers.txt",
     "original_plugins.json", "repo_info.json", "temp_repo_info.json",
     "existing_cache.json"}

\* clean_up() without "repo_info.json" in its list
mutant_clean_up_keeps_repo_info(fs) ==
    [f \in (DOMAIN fs) \ (TransientFiles \ {"repo_info.json"}) |-> fs[f]]

\* clean_up(), lines 527-543
clean_up(fs) == [f \in (DOMAIN fs) \ TransientFiles |-> fs[f]]

Performed(h, phase) ==
    [h EXCEPT !.performed = @ \cup {phase}, !.order = Append(@, phase)]

\* the exception of the given cause is on its way to the handler of line 583
Raised(h, cause) == [h EXCEPT !.error = cause]

\* line 567: configure_git; run_cmd raises when git fails
ConfigureGit ==
    /\ pc = "configure_git"
    /\ \E ok \in BOOLEAN :
          /\ pc' = IF ok THEN "fetch" ELSE "except"
          /\ hist' = IF ok THEN Performed(hist, "configure_git")
                      ELSE Raised(Performed(hist, "configure_git"), "git_config")
    /\ UNCHANGED <<should_update, has_changes, exit_code, original_plugins,
                   existing_cache, has_existing_cache, repo_info, tasks, result,
                   files, BASE_DELAY, MAX_DELAY, MAX_WORKERS>>

\* line 568: fetch_original_plugin_data on an answer from the set R
FetchCatalog(R) ==
    /\ pc = "fetch"
    /\ \E r \in R :
          LET got == fetch_original_plugin_data(r) IN
          /\ should_update' = got.ok
          /\ original_plugins' = got.data
          /\ files' = IF got.ok THEN save_json(files, "original_plugins.json", got.data)
                      ELSE files
          /\ hist' = [Performed(hist, "fetch") EXCEPT !.response = r]
          /\ pc' = IF got.ok THEN "load_cache" ELSE "pull"
    /\ UNCHANGED <<has_changes, exit_code, existing_cache, has_existing_cache,
                   repo_info, tasks, result, BASE_DELAY, MAX_DELAY, MAX_WORKERS>>

\* line 573: load_existing_cache, lines 129-137
LoadCache ==
    /\ pc = "load_cache"
    /\ IF path_exists(files, ARTIFACT)
       THEN LET cache == load_json(files[ARTIFACT], EmptyCache) IN
            /\ existing_cache' = cache
            /\ has_existing_cache' = TRUE
            /\ files' = save_json(files, "existing_cache.json", cache)
       ELSE /\ existing_cache' = EmptyCache
            /\ has_existing_cache' = FALSE
            /\ files' = files
    /\ hist' = Performed(hist, "load_cache")
    /\ pc' = "enrich"
    /\ UNCHANGED <<should_update, has_changes, exit_code, original_plugins,
                   repo_info, tasks, result, BASE_DELAY, MAX_DELAY, MAX_WORKERS>>

\* line 574: get_repo_info up to the submission of the calls, lines 285-311
Submit ==
    /\ pc = "enrich"
    /\ LET repo_urls == repo_urls_of(original_plugins) IN
          /\ tasks' = [u \in {repo_urls[i] : i \in 1..Len(repo_urls)} |-> NewTask]
          /\ hist' = [Performed(hist, "enrich") EXCEPT
                        !.worker_count = worker_count_of(Len(repo_urls)),
                        !.submitted = repo_urls]
    /\ repo_info' = EmptyDict
    /\ pc' = "collect"
    /\ UNCHANGED <<should_update, has_changes, exit_code, original_plugins,
                   existing_cache, has_existing_cache, result, files,
                   BASE_DELAY, MAX_DELAY, MAX_WORKERS>>

\* lines 312-316: as_completed hands over a finished call; future.result()
\* returns its RepoInfo or raises what the call raised
Collect(u) ==
    /\ pc = "collect"
    /\ u \in DOMAIN tasks
    /\ tasks[u].pc \in {"done", "raised"}
    /\ IF tasks[u].pc = "done"
       THEN /\ repo_info' = DictPut(repo_info, u, tasks[u].info)
            /\ tasks' = [tasks EXCEPT ![u] =
                           [NewTask EXCEPT !.pc = "collected", !.last = tasks[u].last,
                                           !.info = tasks[u].info]]
            /\ pc' = pc
            /\ hist' = [hist EXCEPT !.collected = Append(@, u)]
       ELSE /\ pc' = "except"
            /\ hist' = Raised(hist, "worker")
            /\ UNCHANGED <<repo_info, tasks>>
    /\ UNCHANGED <<should_update, has_changes, exit_code, original_plugins,
                   existing_cache, has_existing_cache, result, files,
                   BASE_DELAY, MAX_DELAY, MAX_WORKERS>>

\* lines 318-328: every call collected; repo_info.json is written
EnrichDone ==
    /\ pc = "collect"
    /\ \A u \in DOMAIN tasks : tasks[u].pc = "collected"
    /\ files' = save_json(files, "repo_info.json", repo_info)
    /\ hist' = Performed(hist, "enrich_done")
    /\ pc' = "merge"
    /\ UNCHANGED <<should_update, has_changes, exit_code, original_plugins,
                   existing_cache, has_existing_cache, repo_info, tasks, result,
                   BASE_DELAY, MAX_DELAY, MAX_WORKERS>>

\* line 577: pull_latest_changes_before_checking, lines 446-462, by its outcome
\* (git is an external collaborator: it returns, or RuntimeError is raised)
Pull ==
    /\ pc = "pull"
    /\ \E ok \in BOOLEAN :
          /\ pc' = IF ~ok THEN "except" ELSE IF should_update THEN "check" ELSE "return"
          /\ hist' = IF ok THEN Performed(hist, "pull")
                      ELSE Raised(Performed(hist, "pull"), "rebase")
    /\ UNCHANGED <<should_update, has_changes, exit_code, original_plugins,
                   existing_cache, has_existing_cache, repo_info, tasks, result,
                   files, BASE_DELAY, MAX_DELAY, MAX_WORKERS>>

\* check_for_changes after which main publishes whatever it returned
mutant_CheckForChanges_always_commit ==
    /\ pc = "check"
    /\ \E remote_exists \in BOOLEAN, add_ok \in BOOLEAN, differs \in BOOLEAN :
          IF \/ ~path_exists(files, ARTIFACT)
             \/ files[ARTIFACT].shape = "invalid"
             \/ ~add_ok
          THEN /\ pc' = "except"
               /\ has_changes' = has_changes
               /\ hist' = Raised(Performed(hist, "check"),
                                 IF ~path_exists(files, ARTIFACT) THEN "missing_file"
                                 ELSE IF files[ARTIFACT].shape = "invalid" THEN "invalid_json"
                                 ELSE "git_add")
          ELSE /\ has_changes' = (IF remote_exists THEN differs ELSE TRUE)
               /\ pc' = "commit"
               /\ hist' = Performed(hist, "check")
    /\ UNCHANGED <<should_update, exit_code, original_plugins, existing_cache,
                   has_existing_cache, repo_info, tasks, result, files,
                   BASE_DELAY, MAX_DELAY, MAX_WORKERS>>

\* line 580: check_for_changes, lines 465-500; remote_exists, add_ok and differs
\* are what git answers
CheckForChanges ==
    /\ pc = "check"
    /\ \E remote_exists \in BOOLEAN, add_ok \in BOOLEAN, differs \in BOOLEAN :
          IF \/ ~path_exists(files, ARTIFACT)
             \/ files[ARTIFACT].shape = "invalid"
             \/ ~add_ok
          THEN /\ pc' = "except"
               /\ has_changes' = has_changes
               /\ hist' = Raised(Performed(hist, "check"),
                                 IF ~path_exists(files, ARTIFACT) THEN "missing_file"
                                 ELSE IF files[ARTIFACT].shape = "invalid" THEN "invalid_json"
                                 ELSE "git_add")
          ELSE /\ has_changes' = (IF remote_exists THEN differs ELSE TRUE)
               /\ pc' = IF has_changes' THEN "commit" ELSE "return"
               /\ hist' = Performed(hist, "check")
    /\ UNCHANGED <<should_update, exit_code, original_plugins, existing_cache,
                   has_existing_cache, repo_info, tasks, result, files,
                   BASE_DELAY, MAX_DELAY, MAX_WORKERS>>

CommitOutcomes == {"auth_failed", "add_failed", "commit_failed", "push_failed", "pushed"}

\* line 582: commit_and_push_changes, lines 503-524, by what git answers
CommitAndPush ==
    /\ pc = "commit"
    /\ \E o \in CommitOutcomes :
          /\ hist' = [hist EXCEPT
                        !.performed =
                          @ \cup {"commit_and_push"}
                            \cup (IF o \in {"push_failed", "pushed"} THEN {"commit"} ELSE {})
                            \cup (IF o = "pushed" THEN {"push"} ELSE {}),
                        !.order =
                          @ \o <<"commit_and_push">>
                            \o (IF o \in {"push_failed", "pushed"} THEN <<"commit">> ELSE <<>>)
                            \o (IF o = "pushed" THEN <<"push">> ELSE <<>>),
                        !.error = IF o = "pushed" THEN "none" ELSE o]
          /\ pc' = IF o = "pushed" THEN "return" ELSE "except"
    /\ UNCHANGED <<should_update, has_changes, exit_code, original_plugins,
                   existing_cache, has_existing_cache, repo_info, tasks, result,
                   files, BASE_DELAY, MAX_DELAY, MAX_WORKERS>>

\* the exception handler returning 0
mutant_HandleException_returns_0 ==
    /\ pc = "except"
    /\ hist' = [hist EXCEPT !.summary = print_summary(should_update, has_changes)]
    /\ files' = clean_up(files)
    /\ exit_code' = 0
    /\ pc' = "exit"
    /\ UNCHANGED <<should_update, has_changes, original_plugins, existing_cache,
                   has_existing_cache, repo_info, tasks, result, BASE_DELAY, MAX_DELAY, MAX_WORKERS>>

\* lines 583-587: the exception handler
HandleException ==
    /\ pc = "except"
    /\ hist' = [hist EXCEPT !.summary = print_summary(should_update, has_changes)]
    /\ files' = clean_up(files)
    /\ exit_code' = 1
    /\ pc' = "exit"
    /\ UNCHANGED <<should_update, has_changes, original_plugins, existing_cache,
                   has_existing_cache, repo_info, tasks, result, BASE_DELAY, MAX_DELAY, MAX_WORKERS>>

\* lines 589-591
ReturnOk ==
    /\ pc = "return"
    /\ hist' = [hist EXCEPT !.summary = print_summary(should_update, has_changes)]
    /\ files' = clean_up(files)
    /\ exit_code' = 0
    /\ pc' = "exit"
    /\ UNCHANGED <<should_update, has_changes, original_plugins, existing_cache,
                   has_existing_cache, repo_info, tasks, result, BASE_DELAY, MAX_DELAY, MAX_WORKERS>>

(***************************************************************************)
(* The whole run                                                           *)
(***************************************************************************)
CatalogOne == <<[key |-> "p1", value |-> JDict(PlainPlugin(UrlFoo))]>>

\* catalogs the source may serve: one repository, two plugins sharing one, two
\* repositories, a malformed URL, entries that name no repository
RunCatalogs ==
    {CatalogOne,
     <<[key |-> "p1", value |-> JDict(StalePlugin(UrlFoo))],
       [key |-> "p2", value |-> JDict(PlainPlugin(UrlFoo))]>>,
     <<[key |-> "p2", value |-> JDict(PlainPlugin(UrlBarGit))],
       [key |-> "p1", value |-> JDict(PlainPlugin(UrlFoo))]>>,
     <<[key |-> "p1", value |-> JDict(PlainPlugin(UrlHttp))]>>,
     <<[key |-> "p1", value |-> JStr],
       [key |-> "p2", value |-> JDict(BarePlugin)]>>}

\* answers of the catalog source
Responses ==
    {Response(FALSE, -1, TRUE, 0, "invalid", <<>>)}
    \cup {Response(TRUE, st, FALSE, 200, "object", CatalogOne) : st \in {404, 500}}
    \cup {Response(TRUE, 200, TRUE, b, "invalid", <<>>) : b \in {0, 60}}
    \cup {Response(TRUE, 200, FALSE, 49, "object", CatalogOne)}
    \cup {Response(TRUE, 200, FALSE, 200, j, <<>>) :
            j \in {"invalid", "emptyobj", "emptyarray", "null", "array", "scalar"}}
    \cup {Response(TRUE, 200, FALSE, 50, "object", CatalogOne)}
    \cup {Response(TRUE, 200, FALSE, 200, "object", c) : c \in RunCatalogs}

\* the artifact file as a run may find it
RunArtifacts ==
    {RawCache("invalid", <<>>),
     RawCache("plain", CacheItems(<<JDict(FullCacheFields)>>, <<>>)),
     RawCache("wrapped", CacheItems(<<JDict(FullCacheFields)>>, <<LaterEntry>>)),
     RawCache("plain", CacheItems(<<JDict([repo |-> UrlHttp, stars |-> 10])>>,
                                  <<JDict([repo |-> UrlBarGit, version |-> "1.2.0"])>>))}

\* answers of the hosting API in a whole run
RunOutcomes ==
    {TransportFailure, Outcome(200, PRepoA), Outcome(301, PEmptyDict),
     Outcome(403, PEmptyDict), Outcome(404, PEmptyDict), Outcome(503, PNone)}

RunYml == {NotFound, MetadataWith("2.0.0")}
RunYaml == {NotFound, MetadataWith("3.0.0")}

Init ==
    /\ pc = "configure_git"
    /\ should_update = FALSE
    /\ has_changes = FALSE
    /\ exit_code = -1
    /\ original_plugins = <<>>
    /\ existing_cache = EmptyCache
    /\ has_existing_cache = FALSE
    /\ repo_info = EmptyDict
    /\ tasks = EmptyDict
    /\ result = <<>>
    /\ \E a \in {<<>>} \cup {<<c>> : c \in RunArtifacts} :
          /\ files = (IF a = <<>> THEN EmptyDict ELSE [f \in {ARTIFACT} |-> a[1]])
          /\ hist = [HistInit EXCEPT !.artifact0 = a]
    /\ BASE_DELAY = 2
    /\ MAX_DELAY = 30
    /\ MAX_WORKERS = 12

RunFetch == FetchCatalog(Responses)
RunStart == pc = "collect" /\ \E u \in DOMAIN tasks : Start(u)
RunAttempt == pc = "collect" /\ \E u \in DOMAIN tasks : Attempt(u, RunOutcomes)
RunSuccess == pc = "collect" /\ \E u \in DOMAIN tasks : FinishSuccess(u, RunYml, RunYaml)
RunFailed == pc = "collect" /\ \E u \in DOMAIN tasks : FinishFailed(u)
RunCollect == \E u \in DOMAIN tasks : Collect(u)

Next ==
    \/ ConfigureGit
    \/ RunFetch
    \/ LoadCache
    \/ Submit
    \/ RunStart
    \/ RunAttempt
    \/ RunSuccess
    \/ RunFailed
    \/ RunCollect
    \/ EnrichDone
    \/ Merge
    \/ Pull
    \/ CheckForChanges
    \/ CommitAndPush
    \/ HandleException
    \/ ReturnOk

Spec == Init /\ [][Next]_vars

(***************************************************************************)
(* Claims about the whole run                                              *)
(***************************************************************************)
\* the answer of the catalog source passes every validation the fetch names
ValidResponse(r) ==
    /\ r.transport_ok
    /\ r.status = 200
    /\ ~r.blank
    /\ r.bytes >= 50
    /\ r.json = "object"

Fetched == "fetch" \in hist.performed

ArtifactNow == IF path_exists(files, ARTIFACT) THEN <<files[ARTIFACT]>> ELSE <<>>

MergeDone == "merge" \in hist.performed

\* the primary stats fetch of the entry's repository answered HTTP 404: the call
\* for its URL ended its loop on that answer
ConfirmedGone(k) ==
    /\ IsDict(PluginOf(k))
    /\ UrlOfKey(k) \in DOMAIN tasks
    /\ tasks[UrlOfKey(k)].pc = "collected"
    /\ tasks[UrlOfKey(k)].last.status = 404

\* C11: in a whole run, once the merge is done, every catalog entry whose
\* repository's primary stats fetch answered HTTP 404 is absent from the final
\* catalog, whatever the cache snapshot holds for that repository or key.
C11_GoneIsDropped ==
    MergeDone =>
      \A k \in CatalogKeys : ConfirmedGone(k) => k \notin ResultKeys

\* a run in which the 404 of p1's repository was answered from the cache
\* (status cached) and p1, which has a cache entry of its own, was retained
C11_Retained ==
    /\ MergeDone
    /\ ConfirmedGone("p1")
    /\ has_existing_cache /\ NonTrivialRecord(UrlOfKey("p1")) /\ CacheHasObject("p1")
    /\ StatusOfKey("p1") = "cached"
    /\ "p1" \in ResultKeys

\* a run in which the 404 of p1's repository was dropped: no cache snapshot
C11_Dropped ==
    /\ MergeDone
    /\ ConfirmedGone("p1")
    /\ ~has_existing_cache
    /\ StatusOfKey("p1") = "deleted"
    /\ "p1" \notin ResultKeys
    /\ hist.report.removed_deleted = <<"p1">>

\* the run has returned from main
Exited == pc = "exit"

\* what main can catch in this model: git configuration, the pull --rebase, the
\* change check (missing file, invalid JSON, git add), the publication (auth, add,
\* commit, push), and an exception of a worker call
FatalCauses ==
    {"git_config", "rebase", "missing_file", "invalid_json", "git_add",
     "auth_failed", "add_failed", "commit_failed", "push_failed", "worker"}

\* C12: when main returns, the exit code is 1 exactly when an exception reached
\* its handler (git configuration, rebase, change check, authentication, commit or
\* push failure) and 0 otherwise: on a published run, on a run without content
\* change and on the run whose catalog fetch failed; before that no code is set.
C12_ExitCode ==
    /\ hist.error \in FatalCauses \cup {"none"}
    /\ IF Exited
       THEN /\ exit_code \in {0, 1}
            /\ (exit_code = 1) <=> (hist.error \in FatalCauses)
            /\ (exit_code = 0 /\ ~should_update) => (Fetched /\ ~ValidResponse(hist.response))
            /\ (exit_code = 0 /\ should_update /\ has_changes) => "push" \in hist.performed
       ELSE exit_code = -1

\* the run whose catalog fetch failed on a non-200 answer and that returned 0
\* after a successful pull, reporting the skip
C12_Witness ==
    /\ Exited
    /\ exit_code = 0
    /\ Fetched /\ hist.response.transport_ok /\ hist.response.status = 404
    /\ hist.order = <<"configure_git", "fetch", "pull">>
    /\ hist.summary = "skipped"

\* the enrich phase of this run has returned
EnrichReturned == "enrich_done" \in hist.performed

\* the distinct non-empty repository URLs the catalog's object entries name
ReferencedUrls ==
    {UrlOfKey(k) : k \in {x \in CatalogKeys : IsDict(PluginOf(x))}} \ {EmptyUrl}

NoDuplicates(seq) == \A i, j \in 1..Len(seq) : seq[i] = seq[j] => i = j

SeqRange(seq) == {seq[i] : i \in 1..Len(seq)}

\* C13: for every catalog and every interleaving and completion order of the
\* calls, one call is submitted per distinct non-empty repository URL the catalog
\* names (none twice, none for another URL), each result is collected once, and
\* when the fan-out returns the map holds, for exactly those URLs, the RepoInfo
\* their call returned, whatever the order the calls completed in.
C13_OnePerUrl ==
    ("enrich" \in hist.performed) =>
      /\ NoDuplicates(hist.submitted)
      /\ SeqRange(hist.submitted) = ReferencedUrls
      /\ DOMAIN tasks = ReferencedUrls
      /\ NoDuplicates(hist.collected)
      /\ DOMAIN repo_info = SeqRange(hist.collected)
      /\ \A u \in DOMAIN repo_info :
           /\ tasks[u].pc = "collected"
           /\ repo_info[u] = tasks[u].info
      /\ EnrichReturned =>
           /\ DOMAIN repo_info = ReferencedUrls
           /\ Len(hist.collected) = Len(hist.submitted)

\* two plugins of two repositories whose calls completed in the reverse of the
\* order they were submitted in, with different results
C13_Witness ==
    /\ EnrichReturned
    /\ hist.submitted = <<UrlBarGit, UrlFoo>>
    /\ hist.collected = <<UrlFoo, UrlBarGit>>
    /\ repo_info[UrlFoo].status = "success"
    /\ repo_info[UrlBarGit].status = "network_error"

\* two plugins sharing one repository: one call
C13_SharedWitness ==
    /\ EnrichReturned
    /\ CatalogKeys = {"p1", "p2"}
    /\ UrlOfKey("p1") = UrlFoo /\ UrlOfKey("p2") = UrlFoo
    /\ hist.submitted = <<UrlFoo>>
    /\ DOMAIN repo_info = {UrlFoo}

(***************************************************************************)
(* Specification of the fan-out of get_repo_info under several pool caps   *)
(***************************************************************************)
\* values of the MAX_WORKERS environment setting (line 25)
MaxWorkersValues == {1, 2, 12}

\* catalogs naming no, one, two and three distinct repository URLs
PoolCatalogs ==
    {<<[key |-> "p1", value |-> JStr],
       [key |-> "p2", value |-> JDict(BarePlugin)]>>,
     CatalogOne,
     <<[key |-> "p1", value |-> JDict(PlainPlugin(UrlFoo))],
       [key |-> "p2", value |-> JDict(PlainPlugin(UrlBarGit))],
       [key |-> "p3", value |-> JDict(PlainPlugin(UrlFoo))]>>,
     <<[key |-> "p1", value |-> JDict(PlainPlugin(UrlFoo))],
       [key |-> "p2", value |-> JDict(PlainPlugin(UrlBarGit))],
       [key |-> "p3", value |-> JDict(PlainPlugin(UrlHttp))]>>}

PoolOutcomes == {Outcome(200, PRepoA), Outcome(404, PEmptyDict), Outcome(503, PNone)}

\* main has fetched the catalog and found no artifact; get_repo_info is called
InitPool ==
    /\ pc = "enrich"
    /\ should_update = TRUE
    /\ has_changes = FALSE
    /\ exit_code = -1
    /\ original_plugins \in PoolCatalogs
    /\ existing_cache = EmptyCache
    /\ has_existing_cache = FALSE
    /\ repo_info = EmptyDict
    /\ tasks = EmptyDict
    /\ result = <<>>
    /\ files = EmptyDict
    /\ hist = [HistInit EXCEPT !.performed = {"configure_git", "fetch", "load_cache"},
                               !.order = <<"configure_git", "fetch", "load_cache">>]
    /\ BASE_DELAY = 2
    /\ MAX_DELAY = 30
    /\ MAX_WORKERS \in MaxWorkersValues

PoolStart == pc = "collect" /\ \E u \in DOMAIN tasks : Start(u)
PoolAttempt == pc = "collect" /\ \E u \in DOMAIN tasks : Attempt(u, PoolOutcomes)
PoolSuccess == pc = "collect" /\ \E u \in DOMAIN tasks : FinishSuccess(u, {NotFound}, {NotFound})
PoolFailed == pc = "collect" /\ \E u \in DOMAIN tasks : FinishFailed(u)
PoolCollect == \E u \in DOMAIN tasks : Collect(u)

NextPool ==
    \/ Submit
    \/ PoolStart
    \/ PoolAttempt
    \/ PoolSuccess
    \/ PoolFailed
    \/ PoolCollect
    \/ EnrichDone

SpecPool == InitPool /\ [][NextPool]_vars

Min(a, b) == IF a < b THEN a ELSE b

\* the number of distinct repository URLs of the run
UrlCount == Len(hist.submitted)

Submitted == "enrich" \in hist.performed

\* C14 as stated: the pool size and the number of calls in flight never exceed
\* MAX_WORKERS nor the number of distinct repository URLs, also when that is 0.
C14_Original ==
    Submitted =>
      /\ hist.worker_count <= Min(MAX_WORKERS, UrlCount)
      /\ Cardinality(Running) <= Min(MAX_WORKERS, UrlCount)

\* C14 amended: the pool size is min(MAX_WORKERS, max(1, urlCount)): it never
\* exceeds MAX_WORKERS, and it is the number of distinct URLs when that is between
\* 1 and MAX_WORKERS, but 1 when there is no URL; the number of calls in flight
\* never exceeds the pool size nor min(MAX_WORKERS, urlCount), so it is 0 when
\* there is no URL.
C14_PoolCap ==
    Submitted =>
      /\ hist.worker_count = Min(MAX_WORKERS, IF UrlCount = 0 THEN 1 ELSE UrlCount)
      /\ hist.worker_count <= MAX_WORKERS
      /\ Cardinality(Running) <= hist.worker_count
      /\ Cardinality(Running) <= Min(MAX_WORKERS, UrlCount)

\* a pool of one worker with two calls submitted: one is in flight while the
\* other waits
C14_Witness ==
    /\ Submitted
    /\ MAX_WORKERS = 1 /\ UrlCount = 2
    /\ hist.worker_count = 1
    /\ Running = {UrlFoo}
    /\ tasks[UrlBarGit].pc = "start"
    /\ tasks[UrlFoo].attempt = 2

\* a catalog that names no repository: a pool of one worker and no call
C14_NoUrl ==
    /\ Submitted
    /\ UrlCount = 0
    /\ hist.worker_count = 1
    /\ pc = "merge"

\* the statuses a RepoInfo can carry
StatusVocabulary ==
    {"success", "cached", "redirected", "deleted", "api_limit", "network_error",
     "invalid_repo_url", "unknown"}

\* no call has raised, and every call that returned yielded a RepoInfo whose
\* status is of the vocabulary; a call that used all its attempts on failures
\* yielded network_error or cached
EveryTaskYields ==
    /\ hist.error # "worker"
    /\ \A u \in DOMAIN tasks :
         /\ tasks[u].pc # "raised"
         /\ tasks[u].pc \in {"done", "collected"} =>
              tasks[u].info.status \in StatusVocabulary \ {"unknown"}
         /\ (tasks[u].pc \in {"done", "collected"} /\ tasks[u].last = TransportFailure) =>
              tasks[u].info.status \in {"network_error", "cached"}
    /\ \A u \in DOMAIN repo_info : repo_info[u].status \in StatusVocabulary \ {"unknown"}

\* C15: whatever the answers of the hosting API to the calls (transport failures,
\* any HTTP status, retries used up), no call raises and no exception of a call
\* reaches main; every call yields a RepoInfo of the status vocabulary
\* (network_error or cached after a last transport failure); while calls are
\* outstanding the run can always take a step (a call proceeds, a result is
\* collected, or the phase returns), and the phase is left only towards the merge.
C15_NotFatal ==
    /\ EveryTaskYields
    /\ (pc = "collect") => ENABLED Next
    /\ (Submitted /\ pc # "collect") =>
          /\ EnrichReturned
          /\ \A u \in DOMAIN tasks : tasks[u].pc = "collected"
          /\ pc = "merge" \/ MergeDone

\* a run of two repositories, one failing on transport at every attempt and one
\* answered 403, that has merged
C15_Witness ==
    /\ MergeDone
    /\ DOMAIN tasks = {UrlFoo, UrlBarGit}
    /\ tasks[UrlFoo].last = TransportFailure
    /\ repo_info[UrlFoo].status = "network_error"
    /\ tasks[UrlBarGit].last.status = 403
    /\ repo_info[UrlBarGit].status = "api_limit"

\* the transient diagnostic files: the raw fetched catalog, the enrichment map,
\* the pre-run cache snapshot, and the compact copy of the merged catalog
DiagnosticFiles ==
    {"original_plugins.json", "repo_info.json", "existing_cache.json",
     "temp_plugin_cache_original.json"}

\* C16: when main has returned, on every path (published, no content change,
\* skipped after a failed fetch, aborted by an exception of any phase), the outcome
\* has been reported and no transient diagnostic file exists; the artifact written
\* by a merge is still there.
C16_CleanAtExit ==
    Exited =>
      /\ hist.summary # "none"
      /\ \A f \in DiagnosticFiles : ~path_exists(files, f)
      /\ MergeDone => path_exists(files, ARTIFACT)

\* a run that found an artifact, wrote all three diagnostic files and the merged
\* catalog, failed at the push, and left only the artifact behind
C16_Witness ==
    /\ Exited
    /\ exit_code = 1
    /\ hist.error = "push_failed"
    /\ hist.artifact0 # <<>>
    /\ {"load_cache", "enrich_done", "merge"} \subseteq hist.performed
    /\ DOMAIN files = {ARTIFACT}

\* the phases of a run in the order main calls them
PhaseChain ==
    <<"configure_git", "fetch", "load_cache", "enrich", "enrich_done", "merge",
      "pull", "check", "commit_and_push", "commit", "push">>

ChainPos(phase) == CHOOSE i \in 1..Len(PhaseChain) : PhaseChain[i] = phase

Began(phase) == \E i \in 1..Len(hist.order) : hist.order[i] = phase

\* C17: the phases a run has begun are in the order configure, fetch, load cache,
\* enrich, merge, pull, change check, publish, each at most once; cache load,
\* enrichment and merge happen only after a catalog fetch that succeeded; the
\* publication (authentication, commit, push) begins only in a run whose fetch
\* succeeded, after enrichment and merge have completed and after a change check
\* that reported a change; after a change check that reported none, no commit or
\* push is attempted.
C17_PhaseOrder ==
    /\ \A i \in 1..Len(hist.order) : hist.order[i] \in SeqRange(PhaseChain)
    /\ \A i, j \in 1..Len(hist.order) :
         i < j => ChainPos(hist.order[i]) < ChainPos(hist.order[j])
    /\ SeqRange(hist.order) = hist.performed
    /\ Began("load_cache") => (should_update /\ ValidResponse(hist.response))
    /\ Began("enrich") => Began("load_cache")
    /\ Began("merge") => Began("enrich_done")
    /\ Began("check") => (Began("merge") /\ Began("pull"))
    /\ Began("commit_and_push") =>
         /\ should_update /\ ValidResponse(hist.response)
         /\ Began("enrich_done") /\ Began("merge") /\ MergeDone /\ Began("check")
         /\ has_changes
    /\ Began("push") => Began("commit")
    /\ (Began("check") /\ ~has_changes) => ~Began("commit_and_push")

\* a run that went through every phase and pushed
C17_Witness ==
    /\ Exited
    /\ hist.order = PhaseChain
    /\ has_changes
    /\ exit_code = 0

\* a run whose change check reported no change: it returned without publishing
C17_NoChange ==
    /\ Exited
    /\ Began("check") /\ ~has_changes /\ hist.error = "none"
    /\ ~Began("commit_and_push")
    /\ hist.summary = "nochange"

\* the position of a key in the original catalog's iteration order
CatalogPos(k) == CHOOSE i \in 1..Len(original_plugins) : original_plugins[i].key = k

\* the keys the cache mapping holds
CacheKeys ==
    {normalize_cache(existing_cache)[i].key : i \in 1..Len(normalize_cache(existing_cache))}

\* C18: after the merge, every key of the final catalog is a key of the original
\* catalog (never one that only the cache holds) and appears once; the final keys
\* are in the original catalog's order; and the entry under a key carries the desc,
\* author, repo, tags and social_link of the original entry under that same key.
C18_KeysAndOrder ==
    Merged =>
      /\ ResultKeys \subseteq CatalogKeys
      /\ NoDuplicates(KeysOf(result))
      /\ \A i, j \in 1..Len(result) :
           i < j => CatalogPos(result[i].key) < CatalogPos(result[j].key)
      /\ \A k \in ResultKeys :
           /\ IsDict(PluginOf(k))
           /\ \A f \in {"desc", "author", "repo"} :
                FinalOf(k)[f] = DictGet(PluginOf(k).val, f, PyNone)
           /\ FinalOf(k)["tags"] = DictGet(PluginOf(k).val, "tags", <<>>)
           /\ ("social_link" \in DOMAIN FinalOf(k)) <=>
                ("social_link" \in DOMAIN PluginOf(k).val)

\* a catalog in the order p2, p1 whose entries differ, both retained in that
\* order, merged against a cache that lists p1 before p2
C18_Witness ==
    /\ Merged
    /\ KeysOf(original_plugins) = <<"p2", "p1">>
    /\ KeysOf(normalize_cache(existing_cache)) = <<"p1", "p2">>
    /\ KeysOf(result) = <<"p2", "p1">>
    /\ "social_link" \in DOMAIN FinalOf("p1")
    /\ "social_link" \notin DOMAIN FinalOf("p2")

\* a cache holding a key the catalog does not: the key is not emitted
C18_CacheOnlyKey ==
    /\ Merged
    /\ KeysOf(original_plugins) = <<"p1">>
    /\ "p2" \in CacheKeys
    /\ KeysOf(result) = <<"p1">>

\* a contents answer yields a version match: HTTP 200, an object, a non-empty
\* content that decodes, and a version line in it
YieldsMatch(a) ==
    /\ a.status = 200 /\ a.isdict
    /\ a.content # <<>>
    /\ a.content[1].b64ok
    /\ \E i \in 1..Len(a.content[1].lines) : a.content[1].lines[i].key = "version"

\* the requests of a call that went to the contents endpoint
ContentsCalls(t) == SelectSeq(t.calls, LAMBDA c : c # "repo")

\* n requests to the repository endpoint
RepoRequests(n) == [i \in 1..n |-> "repo"]

\* C19: a call requests the contents endpoint only after its primary fetch has
\* ended in success, and never when it ended otherwise or has not ended; after a
\* success it requests metadata.yml first and metadata.yaml only if metadata.yml
\* gave no version, then logo.png; the version is that of the first file that
\* yields a match (2.0.0 is served in metadata.yml, 3.0.0 in metadata.yaml) and
\* the empty string when neither does.
C19_ContentsAfterSuccess ==
    /\ \A u \in DOMAIN tasks :
         LET t == tasks[u] IN
         /\ (t.pc # "done" \/ t.info.status # "success") => ContentsCalls(t) = <<>>
         /\ (t.pc = "done" /\ t.info.status = "success") =>
              /\ PrimaryStatus(t) = "success"
              /\ t.calls = RepoRequests(t.attempt) \o ContentsCalls(t)
              /\ ContentsCalls(t) =
                   (IF t.info.version = "2.0.0"
                    THEN <<"metadata.yml", "logo.png">>
                    ELSE <<"metadata.yml", "metadata.yaml", "logo.png">>)
              /\ t.info.version \in {"2.0.0", "3.0.0", ""}
    /\ \A yml \in YmlAnswers, yaml \in YamlAnswers :
         LET r == extract_version(yml, yaml) IN
         /\ YieldsMatch(yml) => (r.version = "2.0.0" /\ r.calls = <<"metadata.yml">>)
         /\ (~YieldsMatch(yml) /\ YieldsMatch(yaml)) =>
              (r.version = "3.0.0" /\ r.calls = <<"metadata.yml", "metadata.yaml">>)
         /\ (~YieldsMatch(yml) /\ ~YieldsMatch(yaml)) =>
              (r.version = "" /\ r.calls = <<"metadata.yml", "metadata.yaml">>)

\* a call that succeeded at its second attempt and took its version from
\* metadata.yaml
C19_Witness ==
    /\ UrlFoo \in DOMAIN tasks
    /\ tasks[UrlFoo].pc = "done"
    /\ tasks[UrlFoo].info.status = "success"
    /\ tasks[UrlFoo].info.version = "3.0.0"
    /\ tasks[UrlFoo].calls =
         <<"repo", "repo", "metadata.yml", "metadata.yaml", "logo.png">>

\* the cache main loaded from the artifact the run found
LoadedCache ==
    IF hist.artifact0 = <<>> THEN EmptyCache ELSE load_json(hist.artifact0[1], EmptyCache)

\* C20: in a whole run, from the cache load on, the catalog mapping and each of
\* its entries are what the fetch returned, the cache mapping and each of its
\* entries (and so the by-repository index built from it) are what was loaded, and
\* every RepoInfo in the map is what its call returned, also after the merge has
\* built the final catalog; the final catalog's entries are new objects, so the
\* fields the merge writes into them do not show in the original entries.
C20_InputsUnchanged ==
    ("load_cache" \in hist.performed) =>
      /\ original_plugins = hist.response.catalog
      /\ existing_cache = LoadedCache
      /\ cache_by_repo = build_cache_by_repo(normalize_cache(LoadedCache))
      /\ \A u \in DOMAIN repo_info : repo_info[u] = tasks[u].info
      /\ EnrichReturned => DOMAIN repo_info = DOMAIN tasks

\* a merge that retained p1 with stars and a version its original entry does not
\* carry, against a cache with an entry for p1
C20_Witness ==
    /\ MergeDone
    /\ "p1" \in ResultKeys
    /\ PluginOf("p1").val = PlainPlugin(UrlFoo)
    /\ FinalOf("p1")["stars"] = 42
    /\ FinalOf("p1")["version"] = "2.0.0"
    /\ CacheHasObject("p1")
    /\ "stars" \notin DOMAIN PluginOf("p1").val

\* the change check of this run returned (it did not raise)
CheckCompleted ==
    /\ "check" \in hist.performed
    /\ hist.error \notin {"missing_file", "invalid_json", "git_add"}

\* C21: when main has returned, the outcome its summary reported matches the run:
\* published only if the commit and the push both succeeded, no content change
\* only if the change check completed and found none, skipped only if the catalog
\* fetch failed; and a run that returns 1 has not reported published.
C21_SummaryMatches ==
    Exited =>
      /\ hist.summary \in {"published", "nochange", "skipped"}
      /\ (hist.summary = "published") =>
            ("commit" \in hist.performed /\ "push" \in hist.performed)
      /\ (hist.summary = "nochange") => (CheckCompleted /\ ~has_changes)
      /\ (hist.summary = "skipped") => (Fetched /\ ~ValidResponse(hist.response))
      /\ (exit_code = 1) => hist.summary # "published"

\* a run whose push failed: it returns 1 and its summary reports published
C21_PublishedAfterFailedPush ==
    /\ Exited
    /\ exit_code = 1
    /\ hist.error = "push_failed"
    /\ "push" \notin hist.performed
    /\ hist.summary = "published"

\* a run whose pull failed after a successful merge: no change check ran and its
\* summary reports no content change
C21_NoChangeWithoutCheck ==
    /\ Exited
    /\ exit_code = 1
    /\ hist.error = "rebase"
    /\ MergeDone
    /\ "check" \notin hist.performed
    /\ hist.summary = "nochange"

\* a run whose git configuration failed: no fetch was made and its summary
\* reports the skip
C21_SkippedWithoutFetch ==
    /\ Exited
    /\ exit_code = 1
    /\ hist.error = "git_config"
    /\ ~Fetched
    /\ hist.summary = "skipped"

\* a run that pushed: it returns 0 and its summary reports published
C21_PublishedAfterPush ==
    /\ Exited
    /\ exit_code = 0
    /\ "push" \in hist.performed
    /\ hist.summary = "published"

\* the primary fetch of the entry's repository used up its retries: the call for
\* its well-formed URL has returned and its last answer was still a retryable one
RetriesExhausted(k) ==
    /\ IsDict(PluginOf(k))
    /\ REPO_URL_RE_match(UrlOfKey(k))
    /\ UrlOfKey(k) \in DOMAIN tasks
    /\ tasks[UrlOfKey(k)].pc = "collected"
    /\ ~TerminalAnswer(tasks[UrlOfKey(k)].last)

\* the entry the cache holds under the plugin key
OwnCacheEntry(k) == ItemAt(normalize_cache(existing_cache), k).val

\* C22: in a whole run with a cache snapshot, once the merge is done, every
\* catalog key whose repository's primary fetch used up its retries and that has a
\* cache entry of its own is retained with its own cached stars and with its own
\* cached updated_at, version and logo (each where its entry holds a non-empty
\* one), also when another key shares the repository with other cached values.
C22_CacheStable ==
    (MergeDone /\ has_existing_cache) =>
      \A k \in CatalogKeys :
        (RetriesExhausted(k) /\ CacheHasObject(k)) =>
          /\ k \in ResultKeys
          /\ FinalOf(k)["stars"] = CacheField(k, "stars", 0)
          /\ \A f \in {"updated_at", "version", "logo"} :
               CacheField(k, f, "") # "" =>
                 (f \in DOMAIN FinalOf(k) /\ FinalOf(k)[f] = CacheField(k, f, ""))

\* p1 and p2 share a repository whose fetch failed on transport at every attempt;
\* p1's own cache entry says version 1.2.0 and an updated_at of 2023, and p1 is
\* emitted with p2's cached version 9.9.9 and updated_at of 2022
C22_TakesOtherKeysValues ==
    /\ MergeDone /\ has_existing_cache
    /\ CatalogKeys = {"p1", "p2"} /\ ResultKeys = {"p1", "p2"}
    /\ RetriesExhausted("p1") /\ RetriesExhausted("p2")
    /\ UrlOfKey("p1") = UrlOfKey("p2")
    /\ tasks[UrlOfKey("p1")].last = TransportFailure
    /\ StatusOfKey("p1") = "cached"
    /\ CacheHasObject("p1")
    /\ OwnCacheEntry("p1") = FullCacheFields
    /\ FinalOf("p1")["stars"] = 10
    /\ FinalOf("p1")["version"] = "9.9.9"
    /\ FinalOf("p1")["updated_at"] = "2022-02-02T00:00:00Z"
    /\ FinalOf("p1")["logo"] = "raw/foo/old/logo.png"
    /\ FinalOf("p2")["version"] = "9.9.9"

\* the scenario of the specification: one key, its repository unreachable, its
\* cache entry holding stars 10, an updated_at and version 1.2.0, all three kept
C22_SingleKeyKept ==
    /\ MergeDone /\ has_existing_cache
    /\ CatalogKeys = {"p1"} /\ ResultKeys = {"p1"}
    /\ RetriesExhausted("p1")
    /\ CacheHasObject("p1")
    /\ OwnCacheEntry("p1") = FullCacheFields
    /\ FinalOf("p1")["stars"] = 10
    /\ FinalOf("p1")["version"] = "1.2.0"
    /\ FinalOf("p1")["updated_at"] = "2023-05-05T00:00:00Z"
    /\ FinalOf("p1")["logo"] = "raw/foo/old/logo.png"

====
